---- MODULE Spec2Model ----
(***************************************************************************)
(* Message layer of yojimbo-rs: SequenceBuffer, the reliable-ordered and   *)
(* the unreliable-unordered channel, the ChannelPacketData codec and the   *)
(* Connection, with two connections joined by a lossy, duplicating and     *)
(* reordering datagram transport.                                          *)
(*                                                                         *)
(* Option<T> is modelled as a set of at most one element: {} is None and   *)
(* {x} is Some(x).  Vec<T> indexed from 0 is a sequence indexed from 1.    *)
(* Time is counted in ticks of 0.1 s.                                      *)
(***************************************************************************)
EXTENDS Integers, Sequences, FiniteSets, TLC

----------------------------------------------------------------------------
(* Bounds of the model *)

\* message_send_queue_size of a reliable channel
SendQueueSize == 2
\* message_receive_queue_size of a reliable channel
ReceiveQueueSize == 2
\* sent_packet_buffer_size of a reliable channel
SentPacketBufferSize == 2
\* max_messages_per_packet of every channel
MaxMessagesPerPacket == 2
\* message_send_queue_size and message_receive_queue_size of an unreliable channel
UnreliableQueueSize == 16
\* number of send_message calls the application makes on one channel
MaxSends == 3
\* number of generate_packet calls per connection
MaxPackets == 3
\* last tick the callers advance time to
MaxTime == 1
\* number of messages sent, delivered and acked before the model starts,
\* in the initial state that sits just below the wrap of the 16-bit ids
WrapBase == 65534

----------------------------------------------------------------------------
(* Program constants *)

CONSERVATIVE_MESSAGE_HEADER_BITS == 32
CONSERVATIVE_CHANNEL_HEADER_BITS == 32
CONSERVATIVE_PACKET_HEADER_BITS == 16
\* number of values of a u16
U16 == 65536
\* u16::MAX
U16_MAX == 65535
\* size_of::<TestMessage>(), a struct of one u64
SizeOfM == 8
\* ChannelConfig::message_resend_time, 0.1 s, in ticks of 0.1 s
MessageResendTime == 1
\* time_last_sent of a message that was never sent, -1.0 s, in ticks of 0.1 s
NeverSent == -10

WrappingAdd(a, b) == (a + b) % U16
WrappingSub(a, b) == (a - b + U16) % U16

Min(a, b) == IF a < b THEN a ELSE b
Max(a, b) == IF a > b THEN a ELSE b

\* Option<T>
NoneOpt == {}
Some(x) == {x}
Unwrap(o) == CHOOSE x \in o : TRUE

\* The(S) is the element of a set of one element.  The({body : v \in {value}}) reads
\* `let v = value;` followed by body: the value is computed once, where a LET
\* definition is computed again wherever it is used
The(S) == CHOOSE x \in S : TRUE

----------------------------------------------------------------------------
(* channel/sequence_buffer.rs *)

\* the comparison of the numbers themselves
sequence_greater_than_plain(s1, s2) == s1 > s2

sequence_greater_than(s1, s2) ==
    ((s1 > s2) /\ (s1 - s2 <= 32768)) \/ ((s1 < s2) /\ (s2 - s1 > 32768))

\* the arguments not exchanged
sequence_less_than_unswapped(s1, s2) == sequence_greater_than(s1, s2)

sequence_less_than(s1, s2) == sequence_greater_than(s2, s1)

SequenceBuffer_new(size) ==
    [sequence |-> 0,
     entry_sequence |-> [i \in 1..size |-> NoneOpt],
     entries |-> [i \in 1..size |-> NoneOpt]]

SequenceBuffer_capacity(sb) == Len(sb.entries)

SequenceBuffer_sequence_index(sb, sequence) == sequence % SequenceBuffer_capacity(sb)

\* the payloads are left in place
SequenceBuffer_reset(sb) ==
    [sb EXCEPT !.sequence = 0,
               !.entry_sequence = [i \in 1..SequenceBuffer_capacity(sb) |-> NoneOpt]]

SequenceBuffer_sequence_pointer(sb) == sb.sequence

\* any entry in the slot counts
SequenceBuffer_exists_occupied(sb, sequence) ==
    sb.entry_sequence[SequenceBuffer_sequence_index(sb, sequence) + 1] # NoneOpt

SequenceBuffer_exists(sb, sequence) ==
    sb.entry_sequence[SequenceBuffer_sequence_index(sb, sequence) + 1] = Some(sequence)

SequenceBuffer_available(sb, sequence) ==
    sb.entry_sequence[SequenceBuffer_sequence_index(sb, sequence) + 1] = NoneOpt

\* end_sequence is raised by u16::MAX (not by 2^16) when it lies below start_sequence,
\* and the slot of each sequence of the range is the unwrapped number modulo the capacity
SequenceBuffer_remove_entries(sb, start_sequence, end_sequence) ==
    LET cap == SequenceBuffer_capacity(sb)
        end == IF end_sequence < start_sequence THEN end_sequence + U16_MAX ELSE end_sequence
    IN  IF end - start_sequence < cap
        THEN [sb EXCEPT !.entry_sequence =
                [i \in 1..cap |->
                    IF \E s \in start_sequence..end : s % cap = i - 1
                    THEN NoneOpt ELSE sb.entry_sequence[i]]]
        ELSE [sb EXCEPT !.entry_sequence = [i \in 1..cap |-> NoneOpt]]

\* the producer is called before the sequence is looked at
SequenceBuffer_insert_with_eager(sb, sequence, value) ==
    LET next_sequence == WrappingAdd(sequence, 1)
        cap == SequenceBuffer_capacity(sb)
        index == SequenceBuffer_sequence_index(sb, sequence) + 1
    IN  IF sequence_greater_than(next_sequence, sb.sequence)
        THEN LET adv == [SequenceBuffer_remove_entries(sb, sb.sequence, sequence)
                            EXCEPT !.sequence = next_sequence]
             IN  [ok |-> TRUE, called |-> TRUE,
                  sb |-> [adv EXCEPT !.entry_sequence[index] = Some(sequence),
                                     !.entries[index] = Some(value)]]
        ELSE IF sequence_less_than(sequence, WrappingSub(sb.sequence, cap % U16))
        THEN [ok |-> FALSE, called |-> TRUE, sb |-> sb]
        ELSE [ok |-> TRUE, called |-> TRUE,
              sb |-> [sb EXCEPT !.entry_sequence[index] = Some(sequence),
                                !.entries[index] = Some(value)]]

\* the cursor follows every entry that is placed
SequenceBuffer_insert_with_following(sb, sequence, value) ==
    LET next_sequence == WrappingAdd(sequence, 1)
        cap == SequenceBuffer_capacity(sb)
        index == SequenceBuffer_sequence_index(sb, sequence) + 1
    IN  IF sequence_greater_than(next_sequence, sb.sequence)
        THEN LET adv == [SequenceBuffer_remove_entries(sb, sb.sequence, sequence)
                            EXCEPT !.sequence = next_sequence]
             IN  [ok |-> TRUE, called |-> TRUE,
                  sb |-> [adv EXCEPT !.entry_sequence[index] = Some(sequence),
                                     !.entries[index] = Some(value)]]
        ELSE IF sequence_less_than(sequence, WrappingSub(sb.sequence, cap % U16))
        THEN [ok |-> FALSE, called |-> FALSE, sb |-> sb]
        ELSE [ok |-> TRUE, called |-> TRUE,
              sb |-> [sb EXCEPT !.sequence = next_sequence,
                                !.entry_sequence[index] = Some(sequence),
                                !.entries[index] = Some(value)]]

\* [ok, called, sb]: the cursor advances (clearing the range it passes) before the
\* entry is placed; `value` is what the producer f returns and `called` whether it ran
SequenceBuffer_insert_with(sb, sequence, value) ==
    LET next_sequence == WrappingAdd(sequence, 1)
        cap == SequenceBuffer_capacity(sb)
        index == SequenceBuffer_sequence_index(sb, sequence) + 1
    IN  IF sequence_greater_than(next_sequence, sb.sequence)
        THEN LET adv == [SequenceBuffer_remove_entries(sb, sb.sequence, sequence)
                            EXCEPT !.sequence = next_sequence]
             IN  [ok |-> TRUE, called |-> TRUE,
                  sb |-> [adv EXCEPT !.entry_sequence[index] = Some(sequence),
                                     !.entries[index] = Some(value)]]
        ELSE IF sequence_less_than(sequence, WrappingSub(sb.sequence, cap % U16))
        THEN [ok |-> FALSE, called |-> FALSE, sb |-> sb]
        ELSE [ok |-> TRUE, called |-> TRUE,
              sb |-> [sb EXCEPT !.entry_sequence[index] = Some(sequence),
                                !.entries[index] = Some(value)]]

\* [value, sb]: value is None when the slot does not record exactly this sequence
SequenceBuffer_take(sb, sequence) ==
    LET index == SequenceBuffer_sequence_index(sb, sequence) + 1
    IN  IF SequenceBuffer_exists(sb, sequence)
        THEN [value |-> sb.entries[index],
              sb |-> [sb EXCEPT !.entry_sequence[index] = NoneOpt,
                                !.entries[index] = NoneOpt]]
        ELSE [value |-> NoneOpt, sb |-> sb]

\* the slot is asked whether it is occupied, not whose entry it holds
SequenceBuffer_get_occupied(sb, sequence) ==
    IF ~SequenceBuffer_available(sb, sequence)
    THEN sb.entries[SequenceBuffer_sequence_index(sb, sequence) + 1]
    ELSE NoneOpt

SequenceBuffer_get(sb, sequence) ==
    IF SequenceBuffer_exists(sb, sequence)
    THEN sb.entries[SequenceBuffer_sequence_index(sb, sequence) + 1]
    ELSE NoneOpt

\* the same entry, borrowed mutably
SequenceBuffer_get_mut(sb, sequence) ==
    IF SequenceBuffer_exists(sb, sequence)
    THEN sb.entries[SequenceBuffer_sequence_index(sb, sequence) + 1]
    ELSE NoneOpt

----------------------------------------------------------------------------
(* config.rs, message.rs *)

ReliableOrdered == "ReliableOrdered"
UnreliableUnordered == "UnreliableUnordered"

\* ChannelConfig::new with the sizes of the model; packet_budget is an Option<usize> in bytes
ChannelConfig_new(kind) ==
    [kind |-> kind,
     sent_packet_buffer_size |-> SentPacketBufferSize,
     message_send_queue_size |->
        IF kind = ReliableOrdered THEN SendQueueSize ELSE UnreliableQueueSize,
     message_receive_queue_size |->
        IF kind = ReliableOrdered THEN ReceiveQueueSize ELSE UnreliableQueueSize,
     max_messages_per_packet |-> MaxMessagesPerPacket,
     packet_budget |-> NoneOpt,
     message_resend_time |-> MessageResendTime]

\* A message of the application: `value` is what it carries, `bytes` the length of
\* its serialization (NetworkMessage::serialize writes that many bytes)
Message(value, bytes) == [value |-> value, bytes |-> bytes]

\* MeasureSink: the number of bits NetworkMessage::serialize writes
MeasureSink_bits(message) == 8 * message.bytes

----------------------------------------------------------------------------
(* channel/channel_packet_data.rs *)

\* stands for usize::MAX, the channel index of ChannelPacketData::empty()
USIZE_MAX == 2147483647

ChannelPacketData_empty == [channel_index |-> USIZE_MAX, messages |-> <<>>]

\* The wire is a sequence of fields: [w |-> width in bytes, v |-> integer written,
\* m |-> message body written]; a message body is one field as wide as its serialization
FieldU16(v) == [w |-> 2, v |-> v, m |-> NoneOpt]
FieldU8(v) == [w |-> 1, v |-> v, m |-> NoneOpt]
FieldMessage(message) == [w |-> message.bytes, v |-> 0, m |-> Some(message.value)]

RECURSIVE WireBytes(_)
WireBytes(fields) ==
    IF fields = <<>> THEN 0 ELSE Head(fields).w + WireBytes(Tail(fields))

ChannelPacketData_serialize_unordered(data) ==
    [i \in 1..Len(data.messages) |-> FieldMessage(data.messages[i][2])]

\* the ids written from the last to the first
ChannelPacketData_serialize_ordered_reversed(data) ==
    [i \in 1..Len(data.messages) |->
        FieldU16(data.messages[Len(data.messages) + 1 - i][1])]
    \o [i \in 1..Len(data.messages) |-> FieldMessage(data.messages[i][2])]

\* the ids first, then the bodies
ChannelPacketData_serialize_ordered(data) ==
    [i \in 1..Len(data.messages) |-> FieldU16(data.messages[i][1])]
    \o [i \in 1..Len(data.messages) |-> FieldMessage(data.messages[i][2])]

\* [panic, fields]: the fields appended to the cursor for one channel
ChannelPacketData_serialize(data, config) ==
    IF data.channel_index >= U16 \/ data.channel_index >= Len(config.channels)
    THEN [panic |-> "serialize: channel index", fields |-> <<>>]
    ELSE LET cc == config.channels[data.channel_index + 1]
             has_messages == data.messages # <<>>
             head == <<FieldU16(data.channel_index), FieldU8(IF has_messages THEN 1 ELSE 0)>>
         IN  IF ~has_messages THEN [panic |-> "", fields |-> head]
             ELSE IF Len(data.messages) > cc.max_messages_per_packet
                     \/ Len(data.messages) - 1 > 255
             THEN [panic |-> "serialize: message count", fields |-> <<>>]
             ELSE [panic |-> "",
                   fields |-> head \o <<FieldU8(Len(data.messages) - 1)>>
                        \o (IF cc.kind = UnreliableUnordered
                            THEN ChannelPacketData_serialize_unordered(data)
                            ELSE ChannelPacketData_serialize_ordered(data))]

\* the id of a message of an unreliable channel is read as 0
ChannelPacketData_deserialize_unordered(fields, message_count) ==
    [i \in 1..message_count |-> <<0, Message(Unwrap(fields[i].m), fields[i].w)>>]

ChannelPacketData_deserialize_ordered(fields, message_count) ==
    [i \in 1..message_count |->
        <<fields[i].v,
          Message(Unwrap(fields[message_count + i].m), fields[message_count + i].w)>>]

\* [panic, data, rest]: one ChannelPacketData read from the front of `fields`
ChannelPacketData_deserialize(fields, config) ==
    IF Len(fields) < 2 \/ fields[1].w # 2 \/ fields[2].w # 1
    THEN [panic |-> "deserialize: end of packet", data |-> ChannelPacketData_empty, rest |-> <<>>]
    ELSE IF fields[1].v >= Len(config.channels)
    THEN [panic |-> "deserialize: channel index", data |-> ChannelPacketData_empty, rest |-> <<>>]
    ELSE LET channel_index == fields[1].v
             cc == config.channels[channel_index + 1]
             has_messages == fields[2].v = 1
         IN  IF ~has_messages
             THEN [panic |-> "", data |-> ChannelPacketData_empty, rest |-> SubSeq(fields, 3, Len(fields))]
             ELSE IF Len(fields) < 3 \/ fields[3].w # 1
             THEN [panic |-> "deserialize: end of packet", data |-> ChannelPacketData_empty, rest |-> <<>>]
             ELSE LET message_count == 1 + fields[3].v
                      body == SubSeq(fields, 4, Len(fields))
                      used == IF cc.kind = UnreliableUnordered
                              THEN message_count ELSE 2 * message_count
                  IN  IF message_count > cc.max_messages_per_packet
                      THEN [panic |-> "deserialize: message count",
                            data |-> ChannelPacketData_empty, rest |-> <<>>]
                      ELSE IF Len(body) < used
                      THEN [panic |-> "deserialize: end of packet",
                            data |-> ChannelPacketData_empty, rest |-> <<>>]
                      ELSE [panic |-> "",
                            data |-> [channel_index |-> channel_index,
                                      messages |->
                                        IF cc.kind = UnreliableUnordered
                                        THEN ChannelPacketData_deserialize_unordered(body, message_count)
                                        ELSE ChannelPacketData_deserialize_ordered(body, message_count)],
                            rest |-> SubSeq(body, used + 1, Len(body))]

----------------------------------------------------------------------------
(* channel/reliable.rs *)

MessageSendQueueEntry(message_id, message, time_last_sent, measured_bits) ==
    [message_id |-> message_id, message |-> message,
     time_last_sent |-> time_last_sent, measured_bits |-> measured_bits]

MessageReceiveQueueEntry(message_id, message) ==
    [message_id |-> message_id, message |-> message]

\* message_ids is (start index, run length) into sent_packet_message_ids
SentPacketEntry(time_sent, message_ids, acked) ==
    [time_sent |-> time_sent, message_ids |-> message_ids, acked |-> acked]

Reliable_new(config, time) ==
    [time |-> time,
     config |-> config,
     send_message_id |-> 0,
     receive_message_id |-> 0,
     oldest_unacked_message_id |-> 0,
     sent_packet_message_ids |->
        [i \in 1..(config.max_messages_per_packet * config.sent_packet_buffer_size) |-> 0],
     sent_packets |-> SequenceBuffer_new(config.sent_packet_buffer_size),
     message_send_queue |-> SequenceBuffer_new(config.message_send_queue_size),
     message_receive_queue |-> SequenceBuffer_new(config.message_receive_queue_size)]

Reliable_advance_time(r, new_time) == [r EXCEPT !.time = new_time]

Reliable_reset(r) ==
    [r EXCEPT !.send_message_id = 0,
              !.receive_message_id = 0,
              !.oldest_unacked_message_id = 0,
              !.sent_packets = SequenceBuffer_reset(r.sent_packets),
              !.message_send_queue = SequenceBuffer_reset(r.message_send_queue),
              !.message_receive_queue = SequenceBuffer_reset(r.message_receive_queue)]

Reliable_has_messages_to_send(r) == r.oldest_unacked_message_id # r.send_message_id

Reliable_can_send_message(r) ==
    SequenceBuffer_available(r.message_send_queue, r.send_message_id)

\* [panic, r]
Reliable_send_message(r, message) ==
    IF ~Reliable_can_send_message(r)
    THEN [panic |-> "send_message: assert can_send_message", r |-> r]
    ELSE The({IF ~res.ok
              THEN [panic |-> "send_message: can_send_message should make this impossible",
                    r |-> r]
              ELSE [panic |-> "",
                    r |-> [r EXCEPT !.message_send_queue = res.sb,
                                    !.send_message_id = WrappingAdd(r.send_message_id, 1)]]
              : res \in {SequenceBuffer_insert_with(r.message_send_queue, r.send_message_id,
                        MessageSendQueueEntry(r.send_message_id, message, NeverSent,
                                              MeasureSink_bits(message)))}})

\* receive_message without the early return on an empty slot: the receive id advances
\* past a message that has not arrived
Reliable_receive_message_skipping(r) ==
    LET res == SequenceBuffer_take(r.message_receive_queue, r.receive_message_id)
    IN  [panic |-> "",
         message |-> IF res.value = NoneOpt THEN NoneOpt
                     ELSE Some(<<Unwrap(res.value).message_id, Unwrap(res.value).message>>),
         r |-> [r EXCEPT !.message_receive_queue = res.sb,
                         !.receive_message_id = WrappingAdd(r.receive_message_id, 1)]]

\* receive_message that hands the message over and leaves receive_message_id where it
\* was
Reliable_receive_message_replaying(r) ==
    LET res == SequenceBuffer_take(r.message_receive_queue, r.receive_message_id)
    IN  [panic |-> "",
         message |-> IF res.value = NoneOpt THEN NoneOpt
                     ELSE Some(<<Unwrap(res.value).message_id, Unwrap(res.value).message>>),
         r |-> [r EXCEPT !.message_receive_queue = res.sb]]

\* [message, r]: message is an Option<(u16, M)>
Reliable_receive_message(r) ==
    The({IF res.value = NoneOpt
         THEN [panic |-> "", message |-> NoneOpt, r |-> r]
         ELSE IF Unwrap(res.value).message_id # r.receive_message_id
         THEN [panic |-> "receive_message: assert_eq message_id",
               message |-> NoneOpt, r |-> r]
         ELSE [panic |-> "",
               message |-> Some(<<Unwrap(res.value).message_id,
                                  Unwrap(res.value).message>>),
               r |-> [r EXCEPT !.message_receive_queue = res.sb,
                               !.receive_message_id =
                                     WrappingAdd(r.receive_message_id, 1)]]
         : res \in {SequenceBuffer_take(r.message_receive_queue, r.receive_message_id)}})

\* The loop of get_messages_to_send from index i on.  acc is
\* [panic, used_bits, give_up_counter, message_ids, queue].  `checked` says whether the
\* build checks integer overflow: available_bits - used_bits is a usize subtraction,
\* which panics in such a build and wraps to a huge number otherwise.
RECURSIVE Reliable_get_messages_to_send_loop(_, _, _, _, _)
Reliable_get_messages_to_send_loop(r, available_bits, checked, i, acc) ==
    LET give_up_bits == 4 * 8
        message_limit == Min(SequenceBuffer_capacity(r.message_receive_queue),
                             SequenceBuffer_capacity(r.message_send_queue))
        message_id == WrappingAdd(r.oldest_unacked_message_id, i % U16)
        found == SequenceBuffer_get(acc.queue, message_id)
        entry == Unwrap(found)
        index == SequenceBuffer_sequence_index(acc.queue, message_id) + 1
        message_bits == entry.measured_bits + 2 * 8
        taken == [acc EXCEPT !.used_bits = acc.used_bits + message_bits,
                             !.message_ids = Append(acc.message_ids, message_id),
                             !.queue.entries[index] =
                                Some([entry EXCEPT !.time_last_sent = r.time])]
    IN  IF i >= message_limit THEN acc
        ELSE IF available_bits < acc.used_bits /\ checked
        THEN [acc EXCEPT !.panic = "get_messages_to_send: attempt to subtract with overflow"]
        ELSE IF available_bits >= acc.used_bits /\ available_bits - acc.used_bits < give_up_bits
        THEN acc
        ELSE IF acc.give_up_counter > SequenceBuffer_capacity(r.message_send_queue)
        THEN acc
        ELSE IF found = NoneOpt
        THEN Reliable_get_messages_to_send_loop(r, available_bits, checked, i + 1, acc)
        ELSE IF entry.time_last_sent + r.config.message_resend_time <= r.time
                /\ available_bits >= entry.measured_bits
        THEN IF acc.used_bits + message_bits > available_bits
             THEN Reliable_get_messages_to_send_loop(r, available_bits, checked, i + 1,
                        [acc EXCEPT !.give_up_counter = acc.give_up_counter + 1])
             ELSE IF Len(taken.message_ids) >= r.config.max_messages_per_packet
             THEN taken
             ELSE Reliable_get_messages_to_send_loop(r, available_bits, checked, i + 1, taken)
        ELSE IF Len(acc.message_ids) >= r.config.max_messages_per_packet
        THEN acc
        ELSE Reliable_get_messages_to_send_loop(r, available_bits, checked, i + 1, acc)

\* get_messages_to_send that takes every message of the send queue for never sent
Reliable_get_messages_to_send_unpaced(r, available_bits, checked) ==
    LET capped == IF r.config.packet_budget = NoneOpt THEN available_bits
                  ELSE Min(Unwrap(r.config.packet_budget) * 8, available_bits)
        fresh == [r.message_send_queue EXCEPT !.entries =
                    [k \in DOMAIN @ |->
                        IF @[k] = NoneOpt THEN NoneOpt
                        ELSE Some([Unwrap(@[k]) EXCEPT !.time_last_sent = NeverSent])]]
    IN  The({[panic |-> acc.panic, message_ids |-> acc.message_ids,
             used_bits |-> acc.used_bits,
             r |-> [r EXCEPT !.message_send_queue = acc.queue]]
             : acc \in {Reliable_get_messages_to_send_loop(
                        [r EXCEPT !.message_send_queue = fresh], capped, checked, 0,
                        [panic |-> "", used_bits |-> CONSERVATIVE_MESSAGE_HEADER_BITS,
                         give_up_counter |-> 0, message_ids |-> <<>>,
                         queue |-> fresh])}})

\* get_messages_to_send that stops one message after max_messages_per_packet
Reliable_get_messages_to_send_over(r, available_bits, checked) ==
    LET capped == IF r.config.packet_budget = NoneOpt THEN available_bits
                  ELSE Min(Unwrap(r.config.packet_budget) * 8, available_bits)
    IN  The({[panic |-> acc.panic, message_ids |-> acc.message_ids,
             used_bits |-> acc.used_bits,
             r |-> [r EXCEPT !.message_send_queue = acc.queue]]
             : acc \in {Reliable_get_messages_to_send_loop(
                        [r EXCEPT !.config.max_messages_per_packet = @ + 1],
                        capped, checked, 0,
                        [panic |-> "", used_bits |-> CONSERVATIVE_MESSAGE_HEADER_BITS,
                         give_up_counter |-> 0, message_ids |-> <<>>,
                         queue |-> r.message_send_queue])}})

\* [panic, message_ids, used_bits, r]
Reliable_get_messages_to_send(r, available_bits, checked) ==
    LET capped == IF r.config.packet_budget = NoneOpt THEN available_bits
                  ELSE Min(Unwrap(r.config.packet_budget) * 8, available_bits)
    IN  The({[panic |-> acc.panic, message_ids |-> acc.message_ids,
             used_bits |-> acc.used_bits,
             r |-> [r EXCEPT !.message_send_queue = acc.queue]]
             : acc \in {Reliable_get_messages_to_send_loop(r, capped, checked, 0,
                       [panic |-> "", used_bits |-> CONSERVATIVE_MESSAGE_HEADER_BITS,
                        give_up_counter |-> 0, message_ids |-> <<>>,
                        queue |-> r.message_send_queue])}})

\* a clone of every message named, with its id
Reliable_get_message_packet_data(r, channel_index, message_ids) ==
    [channel_index |-> channel_index,
     messages |-> [i \in 1..Len(message_ids) |->
                    <<message_ids[i],
                      Unwrap(SequenceBuffer_get(r.message_send_queue, message_ids[i])).message>>]]

\* the ids are written to the slice of the packet's slot only when the insert succeeds
Reliable_add_message_packet_entry(r, message_ids, packet_sequence) ==
    LET message_ids_index == (packet_sequence % r.config.sent_packet_buffer_size)
                                * r.config.max_messages_per_packet
        message_ids_run == Len(message_ids)
        res == SequenceBuffer_insert_with(r.sent_packets, packet_sequence,
                    SentPacketEntry(r.time, <<message_ids_index, message_ids_run>>, FALSE))
    IN  IF ~res.ok THEN r
        ELSE [r EXCEPT !.sent_packets = res.sb,
                       !.sent_packet_message_ids =
                            [k \in 1..Len(r.sent_packet_message_ids) |->
                                IF k - 1 >= message_ids_index
                                   /\ k - 1 < message_ids_index + message_ids_run
                                THEN message_ids[k - message_ids_index]
                                ELSE r.sent_packet_message_ids[k]]]

\* [panic, r, data, bits]
Reliable_packet_data(r, channel_index, packet_sequence, available_bits, checked) ==
    IF ~Reliable_has_messages_to_send(r)
    THEN [panic |-> "", r |-> r, data |-> ChannelPacketData_empty, bits |-> 0]
    ELSE The({IF got.panic # ""
              THEN [panic |-> got.panic, r |-> r, data |-> ChannelPacketData_empty,
                    bits |-> 0]
              ELSE IF got.message_ids # <<>>
              THEN [panic |-> "",
                    r |-> Reliable_add_message_packet_entry(got.r, got.message_ids,
                                                            packet_sequence),
                    data |-> Reliable_get_message_packet_data(got.r, channel_index,
                                                              got.message_ids),
                    bits |-> got.used_bits]
              ELSE [panic |-> "", r |-> got.r, data |-> ChannelPacketData_empty,
                    bits |-> 0]
              : got \in {Reliable_get_messages_to_send(r, available_bits, checked)}})

\* The loop over the messages of a packet from index i on; [panic, queue]
RECURSIVE Reliable_process_packet_data_loop(_, _, _, _)
Reliable_process_packet_data_loop(r, messages, i, queue) ==
    LET min_message_id == r.receive_message_id
        max_message_id == WrappingAdd(r.receive_message_id,
                                (SequenceBuffer_capacity(r.message_receive_queue) - 1) % U16)
        id == messages[i][1]
    IN  IF i > Len(messages) THEN [panic |-> "", queue |-> queue]
        ELSE IF sequence_less_than(id, min_message_id)
        THEN Reliable_process_packet_data_loop(r, messages, i + 1, queue)
        ELSE IF sequence_greater_than(id, max_message_id)
        THEN [panic |-> "process_packet_data: desync error (1)", queue |-> queue]
        ELSE The({IF ~res.ok
                  THEN [panic |-> "process_packet_data: desync error (2)",
                        queue |-> queue]
                  ELSE Reliable_process_packet_data_loop(r, messages, i + 1, res.sb)
                  : res \in {SequenceBuffer_insert_with(queue, id,
                            MessageReceiveQueueEntry(id, messages[i][2]))}})

\* [panic, r]
Reliable_process_packet_data(r, packet_data, packet_sequence) ==
    The({[panic |-> res.panic,
         r |-> IF res.panic # "" THEN r
               ELSE [r EXCEPT !.message_receive_queue = res.queue]]
         : res \in {Reliable_process_packet_data_loop(r, packet_data.messages, 1,
                   r.message_receive_queue)}})

\* Advance oldest_unacked_message_id until it names a queued message or reaches the
\* cursor of the send queue
RECURSIVE update_oldest_unacked_message_id(_, _)
update_oldest_unacked_message_id(oldest_unacked_message_id, message_send_queue) ==
    IF oldest_unacked_message_id = SequenceBuffer_sequence_pointer(message_send_queue)
       \/ SequenceBuffer_exists(message_send_queue, oldest_unacked_message_id)
    THEN oldest_unacked_message_id
    ELSE update_oldest_unacked_message_id(WrappingAdd(oldest_unacked_message_id, 1),
                                          message_send_queue)

\* process_ack that takes the message after the last one of the acked packet for the
\* oldest unacked one
Reliable_process_ack_latest(r, ack) ==
    LET found == SequenceBuffer_get(r.sent_packets, ack)
        entry == Unwrap(found)
        last_message == entry.message_ids[1] + entry.message_ids[2]
    IN  IF found = NoneOpt \/ entry.message_ids[2] = 0 THEN [panic |-> "", r |-> r]
        ELSE [panic |-> "",
              r |-> [r EXCEPT !.oldest_unacked_message_id =
                        WrappingAdd(r.sent_packet_message_ids[last_message], 1)]]

\* The loop of process_ack over the ids of the acked packet, from offset k (0-based
\* index into sent_packet_message_ids) up to `last`; [panic, r]
RECURSIVE Reliable_process_ack_loop(_, _, _)
Reliable_process_ack_loop(r, k, last) ==
    LET message_id == r.sent_packet_message_ids[k + 1]
        res == SequenceBuffer_take(r.message_send_queue, message_id)
        oldest == update_oldest_unacked_message_id(r.oldest_unacked_message_id, res.sb)
    IN  IF k >= last THEN [panic |-> "", r |-> r]
        ELSE IF res.value = NoneOpt
        THEN Reliable_process_ack_loop(r, k + 1, last)
        ELSE IF Unwrap(res.value).message_id # message_id
        THEN [panic |-> "process_ack: assert_eq message_id", r |-> r]
        ELSE IF sequence_greater_than(oldest, SequenceBuffer_sequence_pointer(res.sb))
        THEN [panic |-> "update_oldest_unacked_message_id: assert", r |-> r]
        ELSE Reliable_process_ack_loop(
                [r EXCEPT !.message_send_queue = res.sb,
                          !.oldest_unacked_message_id = oldest],
                k + 1, last)

\* process_ack that takes every message from the send queue
Reliable_process_ack_sweeping(r, ack) ==
    LET found == SequenceBuffer_get(r.sent_packets, ack)
        entry == Unwrap(found)
        index == SequenceBuffer_sequence_index(r.sent_packets, ack) + 1
    IN  IF found = NoneOpt THEN [panic |-> "", r |-> r]
        ELSE IF entry.acked THEN [panic |-> "process_ack: assert !entry.acked", r |-> r]
        ELSE [panic |-> "",
              r |-> [r EXCEPT
                        !.sent_packets.entries[index] = Some([entry EXCEPT !.acked = TRUE]),
                        !.message_send_queue.entry_sequence =
                            [i \in DOMAIN @ |-> NoneOpt],
                        !.message_send_queue.entries = [i \in DOMAIN @ |-> NoneOpt],
                        !.oldest_unacked_message_id = r.send_message_id]]

\* [panic, r]
Reliable_process_ack(r, ack) ==
    LET found == SequenceBuffer_get(r.sent_packets, ack)
        entry == Unwrap(found)
        index == SequenceBuffer_sequence_index(r.sent_packets, ack) + 1
        first_message == entry.message_ids[1]
        last_message == first_message + entry.message_ids[2]
    IN  IF found = NoneOpt THEN [panic |-> "", r |-> r]
        ELSE IF entry.acked THEN [panic |-> "process_ack: assert !entry.acked", r |-> r]
        ELSE Reliable_process_ack_loop(
                [r EXCEPT !.sent_packets.entries[index] = Some([entry EXCEPT !.acked = TRUE])],
                first_message, last_message)

----------------------------------------------------------------------------
(* channel/unreliable.rs *)

\* VecDeque::with_capacity(n) is taken to hold exactly n elements
Unreliable_new(config) ==
    [message_send_queue |-> <<>>,
     message_receive_queue |-> <<>>,
     send_capacity |-> Max(config.message_send_queue_size \div SizeOfM, 1),
     receive_capacity |-> Max(config.message_receive_queue_size \div SizeOfM, 1)]

Unreliable_advance_time(u, new_time) == u

Unreliable_reset(u) == [u EXCEPT !.message_send_queue = <<>>, !.message_receive_queue = <<>>]

Unreliable_can_send_message(u) == Len(u.message_send_queue) < u.send_capacity

Unreliable_has_messages_to_send(u) == u.message_send_queue = <<>>

Unreliable_send_message(u, message) ==
    [u EXCEPT !.message_send_queue = Append(u.message_send_queue, message)]

\* [message, u]
Unreliable_receive_message(u) ==
    IF u.message_receive_queue = <<>>
    THEN [message |-> NoneOpt, u |-> u]
    ELSE [message |-> Some(Head(u.message_receive_queue)),
          u |-> [u EXCEPT !.message_receive_queue = Tail(u.message_receive_queue)]]

\* The loop of packet_data: the front message is popped before the tests that end the
\* loop are made.  acc is [queue, used_bits, messages]
RECURSIVE Unreliable_packet_data_loop(_, _, _, _)
Unreliable_packet_data_loop(config, packet_sequence, available_bits, acc) ==
    LET give_up_bits == 4 * 8
        message == Head(acc.queue)
        popped == [acc EXCEPT !.queue = Tail(acc.queue)]
        message_bits == MeasureSink_bits(message)
        saturating_sub == IF available_bits >= acc.used_bits
                          THEN available_bits - acc.used_bits ELSE 0
    IN  IF acc.queue = <<>> THEN acc
        ELSE IF saturating_sub < give_up_bits THEN popped
        ELSE IF Len(acc.messages) = config.max_messages_per_packet THEN popped
        ELSE IF acc.used_bits + message_bits > available_bits
        THEN Unreliable_packet_data_loop(config, packet_sequence, available_bits, popped)
        ELSE Unreliable_packet_data_loop(config, packet_sequence, available_bits,
                [popped EXCEPT !.used_bits = acc.used_bits + message_bits,
                               !.messages = Append(acc.messages,
                                                   <<packet_sequence, message>>)])

\* packet_data that copies the messages into the packet and leaves them queued
Unreliable_packet_data_keeping(u, config, channel_index, packet_sequence, available_bits) ==
    LET acc == Unreliable_packet_data_loop(config, packet_sequence, available_bits,
                    [queue |-> u.message_send_queue,
                     used_bits |-> CONSERVATIVE_MESSAGE_HEADER_BITS,
                     messages |-> <<>>])
    IN  IF acc.messages = <<>>
        THEN [panic |-> "", u |-> u, data |-> ChannelPacketData_empty, bits |-> 0]
        ELSE [panic |-> "", u |-> u,
              data |-> [channel_index |-> channel_index, messages |-> acc.messages],
              bits |-> acc.used_bits]

\* [panic, u, data, bits]
Unreliable_packet_data(u, config, channel_index, packet_sequence, available_bits) ==
    IF u.message_send_queue = <<>>
    THEN [panic |-> "", u |-> u, data |-> ChannelPacketData_empty, bits |-> 0]
    ELSE LET capped == IF config.packet_budget = NoneOpt THEN available_bits
                       ELSE Min(Unwrap(config.packet_budget) * 8, available_bits)
             acc == Unreliable_packet_data_loop(config, packet_sequence, capped,
                        [queue |-> u.message_send_queue,
                         used_bits |-> CONSERVATIVE_MESSAGE_HEADER_BITS,
                         messages |-> <<>>])
             after == [u EXCEPT !.message_send_queue = acc.queue]
         IN  IF acc.messages = <<>>
             THEN [panic |-> "", u |-> after, data |-> ChannelPacketData_empty, bits |-> 0]
             ELSE [panic |-> "", u |-> after,
                   data |-> [channel_index |-> channel_index, messages |-> acc.messages],
                   bits |-> acc.used_bits]

\* The loop of process_packet_data from message i on: a message is dropped when the
\* receive queue is full; its id is the sequence of the packet
RECURSIVE Unreliable_process_packet_data_loop(_, _, _, _)
Unreliable_process_packet_data_loop(u, messages, packet_sequence, i) ==
    IF i > Len(messages) THEN u
    ELSE Unreliable_process_packet_data_loop(
            IF Len(u.message_receive_queue) < u.receive_capacity
            THEN [u EXCEPT !.message_receive_queue =
                        Append(u.message_receive_queue, <<packet_sequence, messages[i][2]>>)]
            ELSE u,
            messages, packet_sequence, i + 1)

Unreliable_process_packet_data(u, packet_data, packet_sequence) ==
    Unreliable_process_packet_data_loop(u, packet_data.messages, packet_sequence, 1)

Unreliable_process_ack(u, ack) == u

----------------------------------------------------------------------------
(* channel.rs: the Channel owns the processor of its kind *)

ChannelErrorLevel == {"None", "Desync", "SendQueueFull", "BlocksDisabled",
                      "FailedToSerialize", "OutOfMemory"}

\* The processor of a reliable-ordered channel.  Channel::new of channel.rs
\* stops at unimplemented!() for this kind; the tests of connection.rs build
\* such channels, so the channel is given the Reliable processor of reliable.rs.
Channel_new_reliable(config, time) == Reliable_new(config, time)

Channel_new(config, channel_index, time) ==
    [config |-> config,
     channel_index |-> channel_index,
     error_level |-> "None",
     processor |-> IF config.kind = UnreliableUnordered
                   THEN Unreliable_new(config)
                   ELSE Channel_new_reliable(config, time)]

Channel_set_error_level(ch, level) == [ch EXCEPT !.error_level = level]

Channel_error_level(ch) == ch.error_level

Channel_reset(ch) ==
    [Channel_set_error_level(ch, "None") EXCEPT !.processor =
        IF ch.config.kind = UnreliableUnordered
        THEN Unreliable_reset(ch.processor) ELSE Reliable_reset(ch.processor)]

\* advance_time that forgets the error level
Channel_advance_time_clearing(ch, time) == [ch EXCEPT !.error_level = "None"]

Channel_advance_time(ch, time) ==
    [ch EXCEPT !.processor =
        IF ch.config.kind = UnreliableUnordered
        THEN Unreliable_advance_time(ch.processor, time)
        ELSE Reliable_advance_time(ch.processor, time)]

Channel_can_send_message(ch) ==
    IF ch.config.kind = UnreliableUnordered
    THEN Unreliable_can_send_message(ch.processor)
    ELSE Reliable_can_send_message(ch.processor)

Channel_has_messages_to_send(ch) ==
    IF ch.config.kind = UnreliableUnordered
    THEN Unreliable_has_messages_to_send(ch.processor)
    ELSE Reliable_has_messages_to_send(ch.processor)

\* [panic, ch]
Channel_send_message(ch, message) ==
    IF Channel_error_level(ch) # "None" THEN [panic |-> "", ch |-> ch]
    ELSE IF ~Channel_can_send_message(ch)
    THEN [panic |-> "", ch |-> Channel_set_error_level(ch, "SendQueueFull")]
    ELSE IF ch.config.kind = UnreliableUnordered
    THEN [panic |-> "",
          ch |-> [ch EXCEPT !.processor = Unreliable_send_message(ch.processor, message)]]
    ELSE The({[panic |-> res.panic, ch |-> [ch EXCEPT !.processor = res.r]]
              : res \in {Reliable_send_message(ch.processor, message)}})

\* [panic, message, ch]: message is an Option<(u16, M)>
Channel_receive_message(ch) ==
    IF Channel_error_level(ch) # "None"
    THEN [panic |-> "", message |-> NoneOpt, ch |-> ch]
    ELSE IF ch.config.kind = UnreliableUnordered
    THEN The({[panic |-> "", message |-> res.message,
              ch |-> [ch EXCEPT !.processor = res.u]]
              : res \in {Unreliable_receive_message(ch.processor)}})
    ELSE The({[panic |-> res.panic, message |-> res.message,
              ch |-> [ch EXCEPT !.processor = res.r]]
              : res \in {Reliable_receive_message(ch.processor)}})

\* [panic, ch, data, bits]
Channel_packet_data(ch, packet_sequence, available_bits, checked) ==
    IF ch.config.kind = UnreliableUnordered
    THEN The({[panic |-> res.panic, ch |-> [ch EXCEPT !.processor = res.u],
              data |-> res.data, bits |-> res.bits]
              : res \in {Unreliable_packet_data(ch.processor, ch.config, ch.channel_index,
                        packet_sequence, available_bits)}})
    ELSE The({[panic |-> res.panic, ch |-> [ch EXCEPT !.processor = res.r],
              data |-> res.data, bits |-> res.bits]
              : res \in {Reliable_packet_data(ch.processor, ch.channel_index, packet_sequence,
                        available_bits, checked)}})

\* [panic, ch]
Channel_process_packet_data(ch, packet_data, packet_sequence) ==
    IF Channel_error_level(ch) # "None" THEN [panic |-> "", ch |-> ch]
    ELSE IF ch.config.kind = UnreliableUnordered
    THEN [panic |-> "",
          ch |-> [ch EXCEPT !.processor =
                    Unreliable_process_packet_data(ch.processor, packet_data,
                                                   packet_sequence)]]
    ELSE The({[panic |-> res.panic, ch |-> [ch EXCEPT !.processor = res.r]]
              : res \in {Reliable_process_packet_data(ch.processor, packet_data, packet_sequence)}})

\* [panic, ch]: the ack is handed to the processor of the channel.
\* Channel::process_ack of channel.rs is an empty body marked "only needed
\* for reliable"; Connection::process_acks calls it for every channel and
\* Reliable::process_ack is the Processor method it is meant to reach.
Channel_process_ack(ch, packet_sequence) ==
    IF ch.config.kind = UnreliableUnordered
    THEN [panic |-> "",
          ch |-> [ch EXCEPT !.processor = Unreliable_process_ack(ch.processor, packet_sequence)]]
    ELSE The({[panic |-> res.panic, ch |-> [ch EXCEPT !.processor = res.r]]
              : res \in {Reliable_process_ack(ch.processor, packet_sequence)}})

----------------------------------------------------------------------------
(* connection.rs *)

ConnectionErrorLevel == {"None", "Channel", "ReadPacketFailed"}

ConnectionConfig(max_packet_size, channels) ==
    [max_packet_size |-> max_packet_size, channels |-> channels]

Connection_new(config, time) ==
    [config |-> config,
     channels |-> [i \in 1..Len(config.channels) |->
                    Channel_new(config.channels[i], i - 1, time)],
     error_level |-> "None"]

Connection_error_level(conn) == conn.error_level

\* The loop over the channels from channel i (1-based) on: it returns at the first
\* channel in error, before the later channels are advanced
RECURSIVE Connection_advance_time_loop(_, _, _)
Connection_advance_time_loop(conn, new_time, i) ==
    IF i > Len(conn.channels) THEN conn
    ELSE The({IF Channel_error_level(advanced.channels[i]) # "None"
              THEN [advanced EXCEPT !.error_level = "Channel"]
              ELSE Connection_advance_time_loop(advanced, new_time, i + 1)
              : advanced \in {[conn EXCEPT !.channels[i] = Channel_advance_time(conn.channels[i], new_time)]}})

Connection_advance_time(conn, new_time) == Connection_advance_time_loop(conn, new_time, 1)

\* one ack through the channels from channel i on; [panic, conn]
RECURSIVE Connection_process_ack_channels(_, _, _)
Connection_process_ack_channels(conn, ack, i) ==
    IF i > Len(conn.channels) THEN [panic |-> "", conn |-> conn]
    ELSE The({IF res.panic # "" THEN [panic |-> res.panic, conn |-> conn]
              ELSE Connection_process_ack_channels(
                      [conn EXCEPT !.channels[i] = res.ch], ack, i + 1)
              : res \in {Channel_process_ack(conn.channels[i], ack)}})

\* [panic, conn]
RECURSIVE Connection_process_acks(_, _)
Connection_process_acks(conn, acks) ==
    IF acks = <<>> THEN [panic |-> "", conn |-> conn]
    ELSE The({IF res.panic # "" THEN res
              ELSE Connection_process_acks(res.conn, Tail(acks))
              : res \in {Connection_process_ack_channels(conn, Head(acks), 1)}})

\* ConnectionPacket::serialize; [panic, fields]
RECURSIVE ConnectionPacket_serialize_channels(_, _)
ConnectionPacket_serialize_channels(channel_data, config) ==
    IF channel_data = <<>> THEN [panic |-> "", fields |-> <<>>]
    ELSE The({IF one.panic # "" THEN one
              ELSE The({IF more.panic # "" THEN more
                        ELSE [panic |-> "", fields |-> one.fields \o more.fields]
                        : more \in {ConnectionPacket_serialize_channels(Tail(channel_data), config)}})
              : one \in {ChannelPacketData_serialize(Head(channel_data), config)}})

\* a write that does not fit the buffer fails, and the failure is unwrapped
ConnectionPacket_serialize(channel_data, config, buffer_len) ==
    The({IF body.panic # "" THEN [panic |-> body.panic, fields |-> <<>>]
         ELSE The({IF WireBytes(fields) > buffer_len
                   THEN [panic |-> "serialize: failed to write whole buffer",
                         fields |-> <<>>]
                   ELSE [panic |-> "", fields |-> fields]
                   : fields \in {<<FieldU16(Len(channel_data))>> \o body.fields}})
         : body \in {ConnectionPacket_serialize_channels(channel_data, config)}})

\* ConnectionPacket::deserialize; [panic, channel_data]
RECURSIVE ConnectionPacket_deserialize_channels(_, _, _)
ConnectionPacket_deserialize_channels(fields, config, channels) ==
    IF channels = 0 THEN [panic |-> "", channel_data |-> <<>>]
    ELSE The({IF one.panic # "" THEN [panic |-> one.panic, channel_data |-> <<>>]
              ELSE The({IF more.panic # "" THEN more
                        ELSE [panic |-> "",
                              channel_data |-> <<one.data>> \o more.channel_data]
                        : more \in {ConnectionPacket_deserialize_channels(one.rest, config,
                                   channels - 1)}})
              : one \in {ChannelPacketData_deserialize(fields, config)}})

ConnectionPacket_deserialize(fields, config) ==
    IF fields = <<>> \/ Head(fields).w # 2
    THEN [panic |-> "deserialize: end of packet", channel_data |-> <<>>]
    ELSE ConnectionPacket_deserialize_channels(Tail(fields), config, Head(fields).v)

\* process_packet that hands every entry of the packet to the first channel
RECURSIVE Connection_process_packet_loop_first(_, _, _, _)
Connection_process_packet_loop_first(conn, channel_data, packet_sequence, i) ==
    LET res == Channel_process_packet_data(conn.channels[1], channel_data[i],
                                           packet_sequence)
    IN  IF i > Len(channel_data) THEN [panic |-> "", conn |-> conn, result |-> TRUE]
        ELSE IF res.panic # "" THEN [panic |-> res.panic, conn |-> conn, result |-> FALSE]
        ELSE Connection_process_packet_loop_first(
                [conn EXCEPT !.channels[1] = res.ch], channel_data, packet_sequence, i + 1)

\* The loop of process_packet over the entries read from the packet, from entry i on;
\* [panic, conn, result]
RECURSIVE Connection_process_packet_loop(_, _, _, _)
Connection_process_packet_loop(conn, channel_data, packet_sequence, i) ==
    LET entry == channel_data[i]
        channel_index == entry.channel_index
    IN  IF i > Len(channel_data) THEN [panic |-> "", conn |-> conn, result |-> TRUE]
        ELSE IF channel_index > Len(conn.channels)
        THEN Connection_process_packet_loop(conn, channel_data, packet_sequence, i + 1)
        ELSE IF channel_index = Len(conn.channels)
        THEN [panic |-> "process_packet: index out of bounds", conn |-> conn, result |-> FALSE]
        ELSE The({IF res.panic # ""
                  THEN [panic |-> res.panic, conn |-> conn, result |-> FALSE]
                  ELSE IF Channel_error_level(res.ch) # "None"
                  THEN [panic |-> "",
                        conn |-> [conn EXCEPT !.channels[channel_index + 1] = res.ch],
                        result |-> FALSE]
                  ELSE Connection_process_packet_loop(
                          [conn EXCEPT !.channels[channel_index + 1] = res.ch],
                          channel_data, packet_sequence, i + 1)
                  : res \in {Channel_process_packet_data(conn.channels[channel_index + 1], entry,
                            packet_sequence)}})

\* [panic, conn, result]: `fields` is the payload of the datagram
Connection_process_packet(conn, packet_sequence, fields) ==
    IF Connection_error_level(conn) # "None"
    THEN [panic |-> "", conn |-> conn, result |-> FALSE]
    ELSE IF WireBytes(fields) = 0
    THEN [panic |-> "process_packet: assert packet_bytes > 0", conn |-> conn, result |-> FALSE]
    ELSE The({IF packet.panic # ""
              THEN [panic |-> packet.panic, conn |-> conn, result |-> FALSE]
              ELSE Connection_process_packet_loop(conn, packet.channel_data,
                                                  packet_sequence, 1)
              : packet \in {ConnectionPacket_deserialize(fields, conn.config)}})

\* usize subtraction: a panic is reported by the caller when the build checks overflow,
\* otherwise the result wraps (to a number larger than any packet)
WrappingSubUsize(a, b) == IF a >= b THEN a - b ELSE (a - b + 1) + USIZE_MAX

\* The loop of generate_packet over the channels from channel i on.  acc is
\* [panic, conn, available_bits, channel_data]
RECURSIVE Connection_generate_packet_loop(_, _, _, _)
Connection_generate_packet_loop(acc, packet_sequence, checked, i) ==
    LET less_header == WrappingSubUsize(acc.available_bits, CONSERVATIVE_CHANNEL_HEADER_BITS)
    IN  IF i > Len(acc.conn.channels) THEN acc
        ELSE The({IF res.panic # "" THEN [acc EXCEPT !.panic = res.panic]
                  ELSE IF res.bits > 0
                  THEN IF checked
                          /\ (acc.available_bits < CONSERVATIVE_CHANNEL_HEADER_BITS
                              \/ less_header < res.bits)
                       THEN [acc EXCEPT !.panic =
                              "generate_packet: attempt to subtract with overflow"]
                       ELSE Connection_generate_packet_loop(
                              [acc EXCEPT
                                  !.conn.channels[i] = res.ch,
                                  !.available_bits =
                                      WrappingSubUsize(less_header, res.bits),
                                  !.channel_data = Append(acc.channel_data, res.data)],
                              packet_sequence, checked, i + 1)
                  ELSE Connection_generate_packet_loop(
                          [acc EXCEPT !.conn.channels[i] = res.ch],
                          packet_sequence, checked, i + 1)
                  : res \in {Channel_packet_data(acc.conn.channels[i], packet_sequence,
                            acc.available_bits, checked)}})

\* [panic, conn, channel_data, fields, bytes]: `fields` is what was written to the buffer of
\* buffer_len bytes and `bytes` the number of bytes written
Connection_generate_packet(conn, packet_sequence, buffer_len, checked) ==
    IF conn.channels = <<>>
    THEN [panic |-> "", conn |-> conn, channel_data |-> <<>>, fields |-> <<>>, bytes |-> 0]
    ELSE IF buffer_len = 0
    THEN [panic |-> "generate_packet: assert !packet_data.is_empty()", conn |-> conn,
          channel_data |-> <<>>, fields |-> <<>>, bytes |-> 0]
    ELSE IF checked /\ buffer_len * 8 < CONSERVATIVE_PACKET_HEADER_BITS
    THEN [panic |-> "generate_packet: attempt to subtract with overflow", conn |-> conn,
          channel_data |-> <<>>, fields |-> <<>>, bytes |-> 0]
    ELSE The({IF acc.panic # ""
              THEN [panic |-> acc.panic, conn |-> conn, channel_data |-> acc.channel_data,
                    fields |-> <<>>, bytes |-> 0]
              ELSE IF acc.channel_data = <<>>
              THEN [panic |-> "", conn |-> acc.conn, channel_data |-> <<>>,
                    fields |-> <<>>, bytes |-> 0]
              ELSE The({IF packet.panic # ""
                        THEN [panic |-> packet.panic, conn |-> conn,
                              channel_data |-> acc.channel_data,
                              fields |-> <<>>, bytes |-> 0]
                        ELSE [panic |-> "", conn |-> acc.conn,
                              channel_data |-> acc.channel_data,
                              fields |-> packet.fields,
                              bytes |-> WireBytes(packet.fields)]
                        : packet \in {ConnectionPacket_serialize(acc.channel_data, conn.config,
                                     buffer_len)}})
              : acc \in {Connection_generate_packet_loop(
                        [panic |-> "", conn |-> conn,
                         available_bits |-> WrappingSubUsize(buffer_len * 8,
                                                CONSERVATIVE_PACKET_HEADER_BITS),
                         channel_data |-> <<>>],
                        packet_sequence, checked, 1)}})

\* the loop of reset over the channels
Connection_reset(conn) ==
    [conn EXCEPT !.error_level = "None",
                 !.channels = [i \in 1..Len(conn.channels) |-> Channel_reset(conn.channels[i])]]

Connection_can_send_message(conn, channel) ==
    Channel_can_send_message(conn.channels[channel + 1])

Connection_has_messages_to_send(conn, channel) ==
    Channel_has_messages_to_send(conn.channels[channel + 1])

\* [panic, conn]
Connection_send_message(conn, channel_index, message) ==
    The({[panic |-> res.panic,
         conn |-> [conn EXCEPT !.channels[channel_index + 1] = res.ch]]
         : res \in {Channel_send_message(conn.channels[channel_index + 1], message)}})

\* [panic, message, conn]
Connection_receive_message(conn, channel_index) ==
    The({[panic |-> res.panic, message |-> res.message,
         conn |-> [conn EXCEPT !.channels[channel_index + 1] = res.ch]]
         : res \in {Channel_receive_message(conn.channels[channel_index + 1])}})

----------------------------------------------------------------------------
(* Two connections, A and B, joined by a datagram transport *)

VARIABLES
    connection,       \* connection[c]: the Connection of endpoint c
    panicked,         \* panicked[c]: "" while c runs, else the panic that ended it
    overflow_checks,  \* whether the build checks integer overflow (debug profile)
    clock,            \* clock[c]: the time last passed to c's advance_time
    packet_sequence,  \* packet_sequence[c]: the next sequence the transport hands to c
    network,          \* network[c]: the datagrams c has sent, [sequence, fields]; the
                      \* transport may deliver any of them at any time, more than once
    acked,            \* acked[c]: the sequences of c's datagrams the peer has processed,
                      \* which the transport may report to c as acked
    processed,        \* processed[c]: <<sequence, k>> for the k-th time c processed the
                      \* peer's datagram `sequence`
    sent_log,         \* sent_log[c][ch + 1]: the messages passed to send_message, in order
    received_log,     \* received_log[c][ch + 1]: what receive_message returned, in order
    setup,            \* what the run started from and what the application sends
    client,           \* a Client, in the specifications of client.rs
    server,           \* a Server, in the specifications of server.rs
    subject           \* the value a function is applied to, in the specifications of functions

vars == <<connection, panicked, overflow_checks, clock, packet_sequence, network, acked,
          processed, sent_log, received_log, setup, client, server, subject>>

\* the specifications of two connections have no client, no server and no subject
components == <<client, server, subject>>
NoComponents == client = NoneOpt /\ server = NoneOpt /\ subject = NoneOpt

Endpoints == {"A", "B"}
Peer(c) == IF c = "A" THEN "B" ELSE "A"

\* number of times the transport hands one datagram to the receiver
MaxDeliveries == 2

\* number of resets in a run
MaxResets == 1

\* A reliable channel after `sent` messages (ids 0..sent-1) were each sent in the packet
\* of the same sequence, processed by the peer and acked, and after `received` messages
\* of the peer were received and handed to the application: the state the calls
\* send_message, generate_packet, process_acks (and process_packet, receive_message)
\* leave behind when repeated `sent` (`received`) times on a new channel
Reliable_after_history(config, time, sent, received) ==
    LET new == Reliable_new(config, time)
        P == config.sent_packet_buffer_size
        M == config.max_messages_per_packet
        \* the last packet that used slot j
        last(j) == (sent - 1) - ((sent - 1 - j) % P)
        used(j) == sent >= 1 /\ last(j) >= 0
    IN  [new EXCEPT
            !.send_message_id = sent % U16,
            !.oldest_unacked_message_id = sent % U16,
            !.receive_message_id = received % U16,
            !.message_send_queue.sequence = sent % U16,
            !.message_receive_queue.sequence = received % U16,
            !.sent_packets =
                [sequence |-> sent % U16,
                 entry_sequence |-> [i \in 1..P |->
                    IF used(i - 1) THEN Some(last(i - 1)) ELSE NoneOpt],
                 entries |-> [i \in 1..P |->
                    IF used(i - 1)
                    THEN Some(SentPacketEntry(time, <<(i - 1) * M, 1>>, TRUE))
                    ELSE NoneOpt]],
            !.sent_packet_message_ids =
                [k \in 1..(M * P) |->
                    IF (k - 1) % M = 0 /\ used((k - 1) \div M)
                    THEN last((k - 1) \div M) ELSE 0]]

Connection_after_history(config, time, sent, received) ==
    LET new == Connection_new(config, time)
    IN  [new EXCEPT !.channels =
            [i \in 1..Len(new.channels) |->
                IF config.channels[i].kind = ReliableOrdered
                THEN [new.channels[i] EXCEPT !.processor =
                        Reliable_after_history(config.channels[i], time, sent, received)]
                ELSE new.channels[i]]]

\* The initial states: both connections built from `config`; A has sent `base`
\* messages on every reliable channel, all of them received by B and acked
\* `senders` are the endpoints whose application sends messages and whose owner
\* generates packets and advances time; the other endpoint only receives
\* `sends` is the number of messages an application passes to one channel, `packets`
\* the number of packets a connection generates, `resets` the number of resets the
\* owners of the connections will still do, `losses` the number of datagrams the pumped
\* transport will still lose
InitWith(config, base, sizes, senders, checked, sends, packets, resets) ==
    /\ setup = [base |-> [A |-> base, B |-> 0], sizes |-> sizes, senders |-> senders,
                sends |-> sends, packets |-> packets, resets |-> resets, losses |-> 0]
    /\ connection = [c \in Endpoints |->
            IF c = "A" THEN Connection_after_history(config, 0, base, 0)
            ELSE Connection_after_history(config, 0, 0, base)]
    /\ panicked = [c \in Endpoints |-> ""]
    /\ overflow_checks = checked
    /\ clock = [c \in Endpoints |-> 0]
    /\ packet_sequence = [c \in Endpoints |-> setup.base[c] % U16]
    /\ network = [c \in Endpoints |-> {}]
    /\ acked = [c \in Endpoints |-> {}]
    /\ processed = [c \in Endpoints |-> {}]
    /\ sent_log = [c \in Endpoints |-> [i \in 1..Len(config.channels) |-> <<>>]]
    /\ received_log = [c \in Endpoints |-> [i \in 1..Len(config.channels) |-> <<>>]]
    /\ NoComponents

Channels(c) == 0..(Len(connection[c].channels) - 1)

Panic(c, reason) == panicked' = [panicked EXCEPT ![c] = reason]

\* the application of c passes its next message, `bytes` long, to send_message
SendMessage(c, ch, bytes) ==
    /\ panicked[c] = ""
    /\ c \in setup.senders
    /\ Len(sent_log[c][ch + 1]) < setup.sends
    /\ \E message \in {Message(<<c, ch, setup.base[c] + Len(sent_log[c][ch + 1])>>, bytes)} :
       \E res \in {Connection_send_message(connection[c], ch, message)} :
           /\ sent_log' = [sent_log EXCEPT ![c][ch + 1] = Append(@, message)]
           /\ IF res.panic # ""
              THEN Panic(c, res.panic) /\ UNCHANGED connection
              ELSE connection' = [connection EXCEPT ![c] = res.conn] /\ UNCHANGED panicked
    /\ UNCHANGED components
    /\ UNCHANGED <<overflow_checks, clock, packet_sequence, network, acked, processed,
                   received_log, setup>>

\* the application of c calls receive_message
ReceiveMessage(c, ch) ==
    /\ panicked[c] = ""
    /\ \E res \in {Connection_receive_message(connection[c], ch)} :
           IF res.panic # ""
           THEN Panic(c, res.panic) /\ UNCHANGED <<connection, received_log>>
           ELSE /\ connection' = [connection EXCEPT ![c] = res.conn]
                /\ received_log' =
                    IF res.message = NoneOpt THEN received_log
                    ELSE [received_log EXCEPT ![c][ch + 1] = Append(@, Unwrap(res.message))]
                /\ UNCHANGED panicked
    /\ UNCHANGED components
    /\ UNCHANGED <<overflow_checks, clock, packet_sequence, network, acked, processed,
                   sent_log, setup>>

PacketsGenerated(c) == WrappingSub(packet_sequence[c], setup.base[c] % U16)

\* c takes the next sequence of the transport and generates a packet into a buffer of
\* max_packet_size bytes; what was written is sent
GeneratePacket(c) ==
    /\ panicked[c] = ""
    /\ c \in setup.senders
    /\ PacketsGenerated(c) < setup.packets
    /\ \E res \in {Connection_generate_packet(connection[c], packet_sequence[c],
                        connection[c].config.max_packet_size, overflow_checks)} :
           IF res.panic # ""
           THEN Panic(c, res.panic) /\ UNCHANGED <<connection, network>>
           ELSE /\ connection' = [connection EXCEPT ![c] = res.conn]
                /\ network' =
                    IF res.bytes > 0
                    THEN [network EXCEPT ![c] =
                            @ \cup {[sequence |-> packet_sequence[c], fields |-> res.fields]}]
                    ELSE network
                /\ UNCHANGED panicked
    /\ packet_sequence' = [packet_sequence EXCEPT ![c] = WrappingAdd(@, 1)]
    /\ UNCHANGED components
    /\ UNCHANGED <<overflow_checks, clock, acked, processed, sent_log, received_log, setup>>

Deliveries(c, sequence) == Cardinality({d \in processed[c] : d[1] = sequence})

\* the transport hands c a datagram of the peer; when process_packet accepts it, the
\* transport acks it to the peer
ProcessPacket(c, p) ==
    /\ panicked[c] = ""
    /\ p \in network[Peer(c)]
    /\ Deliveries(c, p.sequence) < MaxDeliveries
    /\ \E res \in {Connection_process_packet(connection[c], p.sequence, p.fields)} :
           /\ processed' = [processed EXCEPT ![c] =
                    @ \cup {<<p.sequence, Deliveries(c, p.sequence) + 1>>}]
           /\ IF res.panic # ""
              THEN Panic(c, res.panic) /\ UNCHANGED <<connection, acked>>
              ELSE /\ connection' = [connection EXCEPT ![c] = res.conn]
                   /\ acked' = IF res.result
                               THEN [acked EXCEPT ![Peer(c)] = @ \cup {p.sequence}]
                               ELSE acked
                   /\ UNCHANGED panicked
    /\ UNCHANGED components
    /\ UNCHANGED <<overflow_checks, clock, packet_sequence, network, sent_log,
                   received_log, setup>>

\* the transport reports to c that its datagram `ack` was acked
ProcessAcks(c, ack) ==
    /\ panicked[c] = ""
    /\ ack \in acked[c]
    /\ \E res \in {Connection_process_acks(connection[c], <<ack>>)} :
           IF res.panic # ""
           THEN Panic(c, res.panic) /\ UNCHANGED connection
           ELSE connection' = [connection EXCEPT ![c] = res.conn] /\ UNCHANGED panicked
    /\ UNCHANGED components
    /\ UNCHANGED <<overflow_checks, clock, packet_sequence, network, acked, processed,
                   sent_log, received_log, setup>>

\* the caller of c advances time by one tick
AdvanceTime(c) ==
    /\ panicked[c] = ""
    /\ c \in setup.senders
    /\ clock[c] < MaxTime
    /\ clock' = [clock EXCEPT ![c] = @ + 1]
    /\ connection' = [connection EXCEPT ![c] = Connection_advance_time(@, clock[c] + 1)]
    /\ UNCHANGED components
    /\ UNCHANGED <<panicked, overflow_checks, packet_sequence, network, acked, processed,
                   sent_log, received_log, setup>>

\* the owner of c resets it (a server slot whose client disconnected)
Reset(c) ==
    /\ panicked[c] = ""
    /\ setup.resets > 0
    /\ connection' = [connection EXCEPT ![c] = Connection_reset(@)]
    /\ setup' = [setup EXCEPT !.resets = @ - 1]
    /\ UNCHANGED components
    /\ UNCHANGED <<panicked, overflow_checks, clock, packet_sequence, network, acked,
                   processed, sent_log, received_log>>

----------------------------------------------------------------------------
(* One reliable-ordered channel, any loss, duplication, delay and reordering *)

\* ConnectionConfig::new: max_packet_size of 8 KiB
DefaultMaxPacketSize == 8192

ReliableConfig == ConnectionConfig(DefaultMaxPacketSize, <<ChannelConfig_new(ReliableOrdered)>>)

\* with packets of 8 KiB no bit budget comes near zero, so the build profile is
\* immaterial here and the debug profile is taken
Init ==
    \E base \in {0, WrapBase} : InitWith(ReliableConfig, base, {SizeOfM}, {"A"}, TRUE, MaxSends, MaxPackets, 0)

Next ==
    \/ \E c \in Endpoints : \E ch \in Channels(c) : \E bytes \in setup.sizes :
            SendMessage(c, ch, bytes)
    \/ \E c \in Endpoints : \E ch \in Channels(c) : ReceiveMessage(c, ch)
    \/ \E c \in Endpoints : GeneratePacket(c)
    \/ \E c \in Endpoints : \E p \in network[Peer(c)] : ProcessPacket(c, p)
    \/ \E c \in Endpoints : \E ack \in acked[c] : ProcessAcks(c, ack)
    \/ \E c \in Endpoints : AdvanceTime(c)

Spec == Init /\ [][Next]_vars

----------------------------------------------------------------------------
(* What the applications observe *)

IsPrefix(s, t) == Len(s) <= Len(t) /\ \A i \in 1..Len(s) : s[i] = t[i]

\* the messages c's application was handed on channel ch, without their ids
Received(c, ch) ==
    [i \in 1..Len(received_log[c][ch + 1]) |-> received_log[c][ch + 1][i][2]]

NoChannelError ==
    \A c \in Endpoints : \A i \in 1..Len(connection[c].channels) :
        Channel_error_level(connection[c].channels[i]) = "None"

PacketMessages(p) ==
    {Unwrap(p.fields[i].m) : i \in {j \in 1..Len(p.fields) : p.fields[j].m # NoneOpt}}

ReceivedIds(c, ch) ==
    [i \in 1..Len(received_log[c][ch + 1]) |-> received_log[c][ch + 1][i][1]]

----------------------------------------------------------------------------
(* The same pair, either of whose connections may be reset *)

NextReset ==
    \/ Next
    \/ \E c \in Endpoints : Reset(c)

InitReset ==
    \E base \in {0, WrapBase} :
        InitWith(ReliableConfig, base, {SizeOfM}, {"A"}, TRUE, MaxSends, MaxPackets, MaxResets)

SpecReset == InitReset /\ [][NextReset]_vars

oldest_unacked_message_id(c, ch) ==
    connection[c].channels[ch + 1].processor.oldest_unacked_message_id

ErrorLevels(c) ==
    <<Connection_error_level(connection[c])>>
    \o [i \in 1..Len(connection[c].channels) |-> Channel_error_level(connection[c].channels[i])]

----------------------------------------------------------------------------
(* A reliable-ordered pair driven tick by tick, as pump_connection_update drives it *)

\* number of datagrams the transport loses in a run
MaxLosses == 2

\* receive_message until it returns None; [panic, conn, messages]
RECURSIVE Drain(_, _, _)
Drain(conn, channel_index, messages) ==
    The({IF res.panic # "" THEN [panic |-> res.panic, conn |-> conn, messages |-> messages]
         ELSE IF res.message = NoneOpt
         THEN [panic |-> "", conn |-> res.conn, messages |-> messages]
         ELSE Drain(res.conn, channel_index, Append(messages, Unwrap(res.message)))
         : res \in {Connection_receive_message(conn, channel_index)}})

\* One direction of pump_connection_update: `sender` generates the packet `sequence`;
\* unless it is empty or lost, `receiver` processes it and `sender` is told it was acked
PumpHalf(sender, receiver, sequence, lose, checked) ==
    The({IF g.panic # "" THEN [panic |-> g.panic, sender |-> sender, receiver |-> receiver]
         ELSE IF g.bytes = 0 \/ lose
         THEN [panic |-> "", sender |-> g.conn, receiver |-> receiver]
         ELSE The({IF p.panic # ""
                   THEN [panic |-> p.panic, sender |-> sender, receiver |-> receiver]
                   ELSE The({IF a.panic # ""
                             THEN [panic |-> a.panic, sender |-> sender,
                                   receiver |-> receiver]
                             ELSE [panic |-> "", sender |-> a.conn,
                                   receiver |-> p.conn]
                             : a \in {Connection_process_acks(g.conn, <<sequence>>)}})
                   : p \in {Connection_process_packet(receiver, sequence, g.fields)}})
         : g \in {Connection_generate_packet(sender, sequence, sender.config.max_packet_size,
                 checked)}})

Losses(lose_a, lose_b) == (IF lose_a THEN 1 ELSE 0) + (IF lose_b THEN 1 ELSE 0)

\* One iteration of the loops of the tests of connection.rs: a pump_connection_update,
\* then both applications drain receive_message
PumpStep(lose_a, lose_b) ==
    /\ \A c \in Endpoints : panicked[c] = ""
    /\ setup.losses >= Losses(lose_a, lose_b)
    /\ \E time \in {clock["A"] + 1} :
       \E ab \in {PumpHalf(connection["A"], connection["B"], packet_sequence["A"],
                           lose_a, overflow_checks)} :
       \E ba \in {PumpHalf(ab.receiver, ab.sender, packet_sequence["B"],
                           lose_b, overflow_checks)} :
       \E da \in {Drain(Connection_advance_time(ba.receiver, time), 0, <<>>)} :
       \E db \in {Drain(Connection_advance_time(ba.sender, time), 0, <<>>)} :
       \E panic \in {IF ab.panic # "" THEN ab.panic
                     ELSE IF ba.panic # "" THEN ba.panic
                     ELSE IF da.panic # "" THEN da.panic
                     ELSE db.panic} :
           IF panic # ""
           THEN /\ panicked' = [c \in Endpoints |-> panic]
                /\ UNCHANGED <<connection, clock, packet_sequence, received_log, setup>>
           ELSE /\ connection' = [A |-> da.conn, B |-> db.conn]
                /\ clock' = [c \in Endpoints |-> time]
                /\ packet_sequence' = [c \in Endpoints |-> WrappingAdd(packet_sequence[c], 1)]
                /\ received_log' = [received_log EXCEPT !["A"][1] = @ \o da.messages,
                                                        !["B"][1] = @ \o db.messages]
                /\ setup' = [setup EXCEPT !.losses = @ - Losses(lose_a, lose_b)]
                /\ UNCHANGED panicked
    /\ UNCHANGED components
    /\ UNCHANGED <<overflow_checks, network, acked, processed, sent_log>>

\* An iteration of the loop of test_duplex_reliable_messages.  With nothing left to send
\* on either side the iteration generates no datagram and only moves the clock, so it is
\* left out.
Pump(lose_a, lose_b) ==
    /\ \E c \in Endpoints : Connection_has_messages_to_send(connection[c], 0)
    /\ PumpStep(lose_a, lose_b)

\* the application of c sends its next message when can_send_message allows it
SendWhenAllowed(c, bytes) ==
    /\ Connection_can_send_message(connection[c], 0)
    /\ SendMessage(c, 0, bytes)

\* a send queue of twice SendQueueSize, and as many messages to a packet as are sent
LiveConfig(receive_queue_size) ==
    ConnectionConfig(DefaultMaxPacketSize,
        <<[ChannelConfig_new(ReliableOrdered) EXCEPT
            !.message_send_queue_size = 2 * SendQueueSize,
            !.message_receive_queue_size = receive_queue_size,
            !.max_messages_per_packet = MaxSends]>>)

InitLive ==
    \E base \in {0, WrapBase} :
    \E receive_queue_size \in {ReceiveQueueSize, ReceiveQueueSize + 1} :
        /\ connection = [c \in Endpoints |->
                IF c = "A"
                THEN Connection_after_history(LiveConfig(receive_queue_size), 0, base, 0)
                ELSE Connection_after_history(LiveConfig(receive_queue_size), 0, 0, base)]
        /\ setup = [base |-> [A |-> base, B |-> 0], sizes |-> {SizeOfM}, senders |-> {"A"},
                    sends |-> MaxSends, packets |-> 0, resets |-> 0, losses |-> MaxLosses]
        /\ panicked = [c \in Endpoints |-> ""]
        /\ overflow_checks = TRUE
        /\ clock = [c \in Endpoints |-> 0]
        /\ packet_sequence = [c \in Endpoints |-> setup.base[c] % U16]
        /\ network = [c \in Endpoints |-> {}]
        /\ acked = [c \in Endpoints |-> {}]
        /\ processed = [c \in Endpoints |-> {}]
        /\ sent_log = [c \in Endpoints |-> <<<<>>>>]
        /\ received_log = [c \in Endpoints |-> <<<<>>>>]
        /\ NoComponents

NextLive ==
    \/ \E c \in Endpoints : \E bytes \in setup.sizes : SendWhenAllowed(c, bytes)
    \/ \E lose_a, lose_b \in BOOLEAN : Pump(lose_a, lose_b)

\* the loop keeps iterating: the pump is taken whenever it can be
SpecLive ==
    /\ InitLive
    /\ [][NextLive]_vars
    /\ WF_vars(\E lose_a, lose_b \in BOOLEAN : Pump(lose_a, lose_b))

\* C2: every message A's send_message accepted is eventually returned by B's
\* receive_message and A eventually has nothing left to send; so, once A has nothing left
\* to send (oldest_unacked_message_id = send_message_id) and hence generates no further
\* datagram, B's application has been handed every message A sent, in order
C2_ReliableLiveness ==
    (/\ \A c \in Endpoints : panicked[c] = ""
     /\ ~Connection_has_messages_to_send(connection["A"], 0))
        => Received("B", 0) = sent_log["A"][1]

----------------------------------------------------------------------------
(* Messages are queued, then the pair is pumped without loss, as in
   test_send_receive_unreliable_messages *)

CeilDiv(n, d) == (n + d - 1) \div d

\* the rounds it takes to carry the queued messages, max_messages_per_packet to a round
RoundsNeeded(c) ==
    CeilDiv(Len(sent_log[c][1]), connection[c].config.channels[1].max_messages_per_packet)

\* the application of c queues a message before the first round
SendQueued(c, bytes) ==
    /\ clock[c] = 0
    /\ SendMessage(c, 0, bytes)

\* one round: generate_packet and process_packet each way, nothing lost, then drain
Round ==
    /\ clock["A"] < RoundsNeeded("A")
    /\ PumpStep(FALSE, FALSE)

RoundsConfig(kind, max_messages_per_packet) ==
    ConnectionConfig(DefaultMaxPacketSize,
        <<[ChannelConfig_new(kind) EXCEPT !.max_messages_per_packet = max_messages_per_packet]>>)

InitRounds ==
    \E kind \in {ReliableOrdered, UnreliableUnordered} :
    \E max_messages_per_packet \in 1..MaxMessagesPerPacket :
        InitWith(RoundsConfig(kind, max_messages_per_packet), 0, {SizeOfM}, {"A", "B"},
                 TRUE, MaxSends, 0, 0)

NextRounds ==
    \/ \E c \in Endpoints : \E bytes \in setup.sizes : SendQueued(c, bytes)
    \/ Round

SpecRounds == InitRounds /\ [][NextRounds]_vars

Kind(c, ch) == connection[c].config.channels[ch + 1].kind

\* C3: on an unreliable channel without loss, once n <= message_send_queue_size
\* queued messages have been driven for ceil(n / max_messages_per_packet) rounds, the
\* receiver has been handed exactly those n messages, each once, in the order sent
C3_UnreliableRoundsDeliverAll ==
    (/\ Kind("A", 0) = UnreliableUnordered
     /\ Len(sent_log["A"][1]) >= 1
     /\ Len(sent_log["A"][1]) <= connection["A"].config.channels[1].message_send_queue_size
     /\ clock["A"] = RoundsNeeded("A"))
        => Received("B", 0) = sent_log["A"][1]

\* the send queue of c's channel 0 holds exactly `messages`, in order
SendQueueHolds(c, messages) ==
    LET processor == connection[c].channels[1].processor
    IN  IF Kind(c, 0) = UnreliableUnordered
        THEN processor.message_send_queue = messages
        ELSE /\ processor.send_message_id = Len(messages)
             /\ \A i \in 1..Len(messages) :
                  LET entry == SequenceBuffer_get(processor.message_send_queue, i - 1)
                  IN  entry # NoneOpt /\ Unwrap(entry).message = messages[i]
             /\ Cardinality({i \in DOMAIN processor.message_send_queue.entries :
                    processor.message_send_queue.entries[i] # NoneOpt}) = Len(messages)

\* C10: on a new channel of either kind with message_send_queue_size = N, before
\* anything is sent or acked, can_send_message is true before each of the first N
\* send_message calls and they are accepted; the (N+1)-th sets SendQueueFull and leaves
\* send_message_id and the N queued messages as they were
C10_SendQueueOverflow ==
    \A c \in Endpoints :
        LET n == Len(sent_log[c][1])
            N == connection[c].config.channels[1].message_send_queue_size
            channel == connection[c].channels[1]
        IN  clock[c] = 0 =>
                /\ n < N => Channel_can_send_message(channel)
                /\ n <= N => /\ Channel_error_level(channel) = "None"
                             /\ SendQueueHolds(c, sent_log[c][1])
                /\ n > N => /\ Channel_error_level(channel) = "SendQueueFull"
                            /\ SendQueueHolds(c, SubSeq(sent_log[c][1], 1, N))

----------------------------------------------------------------------------
(* A reliable-ordered and an unreliable-unordered channel sharing the packets of one
   connection, any loss, duplication, delay and reordering *)

ChannelsConfig ==
    ConnectionConfig(DefaultMaxPacketSize,
        <<ChannelConfig_new(ReliableOrdered), ChannelConfig_new(UnreliableUnordered)>>)

\* messages sent on each of the two channels, and packets generated
ChannelsSends == 2
ChannelsPackets == 2

InitChannels ==
    InitWith(ChannelsConfig, 0, {SizeOfM}, {"A"}, TRUE, ChannelsSends, ChannelsPackets, 0)

SpecChannels == InitChannels /\ [][Next]_vars

----------------------------------------------------------------------------
(* One unreliable-unordered channel, any loss, duplication, delay and reordering *)

UnreliableConfig ==
    ConnectionConfig(DefaultMaxPacketSize, <<ChannelConfig_new(UnreliableUnordered)>>)

InitUnreliable ==
    InitWith(UnreliableConfig, 0, {SizeOfM}, {"A"}, TRUE, MaxSends, MaxPackets, 0)

SpecUnreliable == InitUnreliable /\ [][Next]_vars

Count(sequence, x) == Cardinality({i \in 1..Len(sequence) : sequence[i] = x})

\* the number of times x was written into the datagram p
Carried(p, x) == Count([i \in 1..Len(p.fields) |-> p.fields[i].m], Some(x))

\* the times B processed a datagram of A that carries x
ProcessedCarrying(x) ==
    {d \in processed["B"] : \E p \in network["A"] : p.sequence = d[1] /\ Carried(p, x) > 0}

\* C4: on an unreliable channel a message passed to send_message is placed in at most one
\* generated packet, the receiving application is handed it at most once for each
\* processing of a datagram that carries it, and whatever it is handed the peer sent on
\* that channel
C4_UnreliableAtMostOnce ==
    /\ \A i \in 1..Len(sent_log["A"][1]) :
            LET x == sent_log["A"][1][i].value
            IN  /\ \A p \in network["A"] : Carried(p, x) <= 1
                /\ \A p, q \in network["A"] :
                        Carried(p, x) > 0 /\ Carried(q, x) > 0 => p = q
                /\ Count([k \in 1..Len(Received("B", 0)) |-> Received("B", 0)[k].value], x)
                        <= Cardinality(ProcessedCarrying(x))
    /\ \A k \in 1..Len(Received("B", 0)) :
            \E i \in 1..Len(sent_log["A"][1]) : Received("B", 0)[k] = sent_log["A"][1][i]

\* a datagram was processed twice and the application was handed its message twice,
\* while another message was handed over once
C4_Witness ==
    \E x, y \in {sent_log["A"][1][i].value : i \in 1..Len(sent_log["A"][1])} :
        /\ Count([k \in 1..Len(Received("B", 0)) |-> Received("B", 0)[k].value], x) = 2
        /\ Cardinality(ProcessedCarrying(x)) = 2
        /\ Count([k \in 1..Len(Received("B", 0)) |-> Received("B", 0)[k].value], y) = 1

----------------------------------------------------------------------------
(* Two channels of either kind filling packets of a few bytes *)

\* max_packet_size of the connection, and the packet_budget a channel may have, in bytes
BudgetMaxPacketSize == 16
BudgetPacketBudget == 12

\* the shortest serialization of a message among those sent
ShortMessage == 1

BudgetConfig(kinds, budgets) ==
    ConnectionConfig(BudgetMaxPacketSize,
        [i \in 1..2 |-> [ChannelConfig_new(kinds[i]) EXCEPT !.packet_budget = budgets[i]]])

InitBudget ==
    \E kinds \in [1..2 -> {ReliableOrdered, UnreliableUnordered}] :
    \E budgets \in [1..2 -> {NoneOpt, Some(BudgetPacketBudget)}] :
    \E checked \in BOOLEAN :
        InitWith(BudgetConfig(kinds, budgets), 0, {ShortMessage, SizeOfM}, {"A"}, checked,
                 ChannelsSends, ChannelsPackets, 0)

NextBudget ==
    \/ \E c \in Endpoints : \E ch \in Channels(c) : \E bytes \in setup.sizes :
            SendMessage(c, ch, bytes)
    \/ \E c \in Endpoints : GeneratePacket(c)
    \/ \E c \in Endpoints : AdvanceTime(c)

SpecBudget == InitBudget /\ [][NextBudget]_vars

\* C8: whatever the kinds of the channels, the sizes of the queued messages and the
\* packet budgets, generate_packet with a buffer of max_packet_size bytes writes a
\* payload of at most max_packet_size bytes and its serialization is never stopped by
\* the end of the buffer
C8_BudgetSafety ==
    \A c \in Endpoints :
        /\ panicked[c] # "serialize: failed to write whole buffer"
        /\ \A p \in network[c] : WireBytes(p.fields) <= connection[c].config.max_packet_size

----------------------------------------------------------------------------
(* The comparisons of sequence numbers, applied to every 16 bit number *)

\* the variables of the two connections, which the specifications of one component
\* leave empty
transport == <<connection, panicked, overflow_checks, clock, packet_sequence, network,
               acked, processed, sent_log, received_log, setup>>

NoTransport ==
    /\ connection = NoneOpt /\ panicked = NoneOpt /\ overflow_checks = TRUE
    /\ clock = NoneOpt /\ packet_sequence = NoneOpt /\ network = NoneOpt
    /\ acked = NoneOpt /\ processed = NoneOpt /\ sent_log = NoneOpt
    /\ received_log = NoneOpt /\ setup = NoneOpt

\* the distance of test_sequence_comparisons
ComparisonDistance == 15000

InitSequence ==
    /\ \E x \in 0..U16_MAX : subject = [x |-> x, step |-> "new"]
    /\ client = NoneOpt /\ server = NoneOpt
    /\ NoTransport

\* the comparisons of a number and its successor, as in test_sequence_greater_than
CompareSuccessor ==
    /\ subject.step = "new"
    /\ \E next \in {WrappingAdd(subject.x, 1)} :
           subject' = [x |-> subject.x, step |-> "successor",
                       next_greater |-> sequence_greater_than(next, subject.x),
                       greater_next |-> sequence_greater_than(subject.x, next)]
    /\ UNCHANGED <<client, server, transport>>

\* the comparisons of the body of the loop of test_sequence_comparisons
CompareAround ==
    /\ subject.step = "new"
    /\ \E left \in {WrappingSub(subject.x, ComparisonDistance)} :
       \E right \in {WrappingAdd(subject.x, ComparisonDistance)} :
           subject' = [x |-> subject.x, step |-> "around",
                       less |-> <<sequence_less_than(left, subject.x),
                                  sequence_less_than(subject.x, right),
                                  sequence_less_than(left, right)>>,
                       greater |-> <<sequence_greater_than(right, subject.x),
                                     sequence_greater_than(subject.x, left),
                                     sequence_greater_than(right, left)>>]
    /\ UNCHANGED <<client, server, transport>>

NextSequence == CompareSuccessor \/ CompareAround

SpecSequence == InitSequence /\ [][NextSequence]_vars

\* C19: for every 16 bit s, sequence_greater_than(s + 1, s) is true and
\* sequence_greater_than(s, s + 1) is false, s + 1 taken modulo 2^16
C19_SuccessorGreater ==
    subject.step = "successor" => subject.next_greater /\ ~subject.greater_next

\* the successor of 65535, which is 0, has been compared with it
C19_Witness == subject.step = "successor" /\ subject.x = U16_MAX

\* C20: for every 16 bit x, with left = x - 15000 and right = x + 15000 modulo 2^16,
\* left is less than x, x less than right and left less than right, and right is greater
\* than x, x greater than left and right greater than left
C20_AroundOrdered ==
    subject.step = "around" =>
        /\ subject.less = <<TRUE, TRUE, TRUE>>
        /\ subject.greater = <<TRUE, TRUE, TRUE>>

\* the comparisons were made for an x whose right neighbour wrapped past 65535
C20_Witness ==
    /\ subject.step = "around"
    /\ WrappingAdd(subject.x, ComparisonDistance) < subject.x

----------------------------------------------------------------------------
(* A SequenceBuffer filled with consecutive keys, as in test_sequence_buffer *)

\* the largest capacity of the buffer
BufferMaxCapacity == 5

\* the number of keys inserted
BufferMaxInserts == 12

\* how far below 2^16 the first key of a run that wraps lies
BufferWrapLead == 6

\* the value inserted for the key seq as the value-th insert
SeqData(seq, value) == [seq |-> seq, value |-> value]

\* The buffer after the keys 0..n-1 (n < 2^16) were inserted in order, each with
\* SeqData(key, key): every insert moves the cursor past its key and leaves in each slot
\* the last key that used it
SequenceBuffer_after_inserts(size, n) ==
    LET last(j) == (n - 1) - ((n - 1 - j) % size)
        used(j) == n >= 1 /\ last(j) >= 0
    IN  [sequence |-> n % U16,
         entry_sequence |-> [i \in 1..size |->
            IF used(i - 1) THEN Some(last(i - 1)) ELSE NoneOpt],
         entries |-> [i \in 1..size |->
            IF used(i - 1) THEN Some(SeqData(last(i - 1), last(i - 1))) ELSE NoneOpt]]

\* the loop that enters values has run `first` times
InitBuffer ==
    /\ \E size \in 1..BufferMaxCapacity :
       \E first \in {0, U16 - BufferWrapLead} :
           subject = [buffer |-> SequenceBuffer_after_inserts(size, first), first |-> first,
                      seq |-> first, value |-> first, inserted |-> TRUE]
    /\ client = NoneOpt /\ server = NoneOpt
    /\ NoTransport

\* one iteration of the loop that enters values: insert_with(seq, || entry), then seq
\* advances
InsertNext ==
    /\ subject.value < subject.first + BufferMaxInserts
    /\ \E res \in {SequenceBuffer_insert_with(subject.buffer, subject.seq,
                                              SeqData(subject.seq, subject.value))} :
           subject' = [subject EXCEPT !.buffer = res.sb,
                                      !.inserted = @ /\ res.ok,
                                      !.seq = WrappingAdd(@, 1),
                                      !.value = @ + 1]
    /\ UNCHANGED <<client, server, transport>>

SpecBuffer == InitBuffer /\ [][InsertNext]_vars

\* C18: after m consecutive keys were inserted into a buffer of capacity N, each of
\* the last min(m, N) keys exists and get returns the value inserted for it, and no key
\* older than the cursor minus N exists or is returned by get; also after the keys have
\* wrapped past 65535
C18_BufferRetention ==
    LET N == SequenceBuffer_capacity(subject.buffer)
        m == subject.value
        oldest == WrappingSub(subject.seq, N)
    IN  /\ \A i \in 1..Min(m, N) :
            LET key == WrappingSub(subject.seq, i)
            IN  /\ SequenceBuffer_exists(subject.buffer, key)
                /\ SequenceBuffer_get(subject.buffer, key) = Some(SeqData(key, m - i))
        /\ \A key \in 0..U16_MAX :
            sequence_less_than(key, oldest) =>
                /\ ~SequenceBuffer_exists(subject.buffer, key)
                /\ SequenceBuffer_get(subject.buffer, key) = NoneOpt

----------------------------------------------------------------------------
(* ChannelPacketData written to a cursor and read back *)

\* the message ids and the message values a ChannelPacketData is built from
CodecIds == {0, 1, U16_MAX}
CodecValues == {"a", "b"}

\* the messages of a ChannelPacketData: up to max_messages_per_packet pairs of an id
\* and a message; a message serializes to ShortMessage or SizeOfM bytes
CodecMessages ==
    LET pairs == {<<id, Message(value, bytes)>> :
                    id \in CodecIds, value \in CodecValues, bytes \in {ShortMessage, SizeOfM}}
    IN  UNION {[1..n -> pairs] : n \in 0..MaxMessagesPerPacket}

\* what follows in the buffer: nothing, or the ChannelPacketData of another channel
CodecTrailing == {<<>>, <<FieldU16(1), FieldU8(0)>>}

\* a ChannelPacketData for one of the channels of ChannelsConfig, and a cursor at the
\* start of an empty buffer
InitCodec ==
    /\ \E channel_index \in 0..(Len(ChannelsConfig.channels) - 1) :
       \E messages \in CodecMessages :
       \E trailing \in CodecTrailing :
           subject = [data |-> [channel_index |-> channel_index, messages |-> messages],
                      trailing |-> trailing, step |-> "new", panic |-> "",
                      wire |-> <<>>, read |-> ChannelPacketData_empty, rest |-> <<>>]
    /\ client = NoneOpt /\ server = NoneOpt
    /\ NoTransport

\* data.serialize(config, dest); the rest of the packet is written after it
Serialize ==
    /\ subject.step = "new"
    /\ \E res \in {ChannelPacketData_serialize(subject.data, ChannelsConfig)} :
           subject' = [subject EXCEPT !.step = "serialized",
                                      !.panic = res.panic,
                                      !.wire = res.fields \o subject.trailing]
    /\ UNCHANGED <<client, server, transport>>

\* ChannelPacketData::deserialize(config, src) with src at the start of what was written
Deserialize ==
    /\ subject.step = "serialized"
    /\ subject.panic = ""
    /\ \E res \in {ChannelPacketData_deserialize(subject.wire, ChannelsConfig)} :
           subject' = [subject EXCEPT !.step = "deserialized",
                                      !.panic = res.panic,
                                      !.read = res.data,
                                      !.rest = res.rest]
    /\ UNCHANGED <<client, server, transport>>

NextCodec == Serialize \/ Deserialize

SpecCodec == InitCodec /\ [][NextCodec]_vars

CodecKind == ChannelsConfig.channels[subject.data.channel_index + 1].kind

\* the reader stopped where the writer of the ChannelPacketData stopped
CodecConsumedWritten == subject.panic = "" /\ subject.rest = subject.trailing

\* C17: deserialize(serialize(d)) returns the channel index, the message ids in order
\* and the messages of d, and consumes exactly the bytes serialize wrote, for every d
\* valid for the config (0 to max_messages_per_packet messages, either kind of channel)
C17_CodecRoundTrip ==
    subject.step = "deserialized" =>
        /\ CodecConsumedWritten
        /\ subject.read = subject.data

\* C17 as the code has it: the bytes written are consumed exactly; with one message or
\* more the channel index and the messages are those of d, in order, the ids are those
\* of d on a reliable channel and all 0 on an unreliable channel; with no message the
\* result is ChannelPacketData::empty(), whose channel index is usize::MAX
C17_CodecRoundTripAmended ==
    subject.step = "deserialized" =>
        /\ CodecConsumedWritten
        /\ IF subject.data.messages = <<>>
           THEN subject.read = ChannelPacketData_empty
           ELSE /\ subject.read.channel_index = subject.data.channel_index
                /\ Len(subject.read.messages) = Len(subject.data.messages)
                /\ \A i \in 1..Len(subject.data.messages) :
                    /\ subject.read.messages[i][2] = subject.data.messages[i][2]
                    /\ subject.read.messages[i][1] =
                        IF CodecKind = ReliableOrdered
                        THEN subject.data.messages[i][1] ELSE 0

\* two messages with different ids and different lengths on the reliable channel were
\* written, followed by more of the packet, and read back
C17_Witness ==
    /\ subject.step = "deserialized"
    /\ CodecKind = ReliableOrdered
    /\ Len(subject.data.messages) = 2
    /\ subject.data.messages[1][1] = U16_MAX
    /\ subject.data.messages[2][1] = 0
    /\ subject.data.messages[1][2].bytes # subject.data.messages[2][2].bytes
    /\ subject.trailing # <<>>

----------------------------------------------------------------------------
(* A reliable channel whose receiver falls behind *)

\* the message ids a datagram of c's peer carries for channel 0
ReliableIds(c, p) ==
    LET packet == ConnectionPacket_deserialize(p.fields, connection[c].config)
        data == {packet.channel_data[i] : i \in 1..Len(packet.channel_data)}
    IN  UNION {{d.messages[j][1] : j \in 1..Len(d.messages)} :
                d \in {e \in data : e.channel_index = 0}}

\* C12: when process_packet_data of a reliable channel is given a message id greater
\* than receive_message_id + receive capacity - 1 the endpoint keeps running, the error
\* level of the channel becomes Desync; and a datagram whose ids are all less than
\* receive_message_id changes nothing
C12_DesyncIsErrorState ==
    [][\A c \in Endpoints : \A p \in network[Peer(c)] :
        (/\ panicked[c] = ""
         /\ Connection_error_level(connection[c]) = "None"
         /\ processed'[c] = processed[c] \cup {<<p.sequence, Deliveries(c, p.sequence) + 1>>})
        =>
        LET r == connection[c].channels[1].processor
            max_message_id ==
                WrappingAdd(r.receive_message_id,
                            (SequenceBuffer_capacity(r.message_receive_queue) - 1) % U16)
        IN  /\ (\E id \in ReliableIds(c, p) : sequence_greater_than(id, max_message_id)) =>
                /\ panicked'[c] = ""
                /\ Channel_error_level(connection'[c].channels[1]) = "Desync"
            /\ (\A id \in ReliableIds(c, p) : sequence_less_than(id, r.receive_message_id)) =>
                /\ panicked'[c] = ""
                /\ connection'[c] = connection[c]]_vars

----------------------------------------------------------------------------
(* A connection in error *)

\* C13: once the error level of a connection is not None, every step of it other than
\* reset leaves the connection and its channels as they are, generate_packet writes
\* nothing (no datagram is sent) and receive_message returns nothing
C13_NoOpAfterError ==
    [][\A c \in Endpoints :
        (Connection_error_level(connection[c]) # "None" /\ ~Reset(c)) =>
            /\ connection'[c] = connection[c]
            /\ network'[c] = network[c]
            /\ received_log'[c] = received_log[c]]_vars

----------------------------------------------------------------------------
(* A connection that is reset, and a new connection given the same calls after it *)

\* the number of calls made before the reset and after it
FreshCallsBefore == 3
FreshCallsAfter == 3

\* the time the connection is advanced to at most
FreshMaxTime == 2

\* The calls the owner of a connection can make next: `phase` marks the messages passed
\* in, `sent` numbers those of the application, `sequence` is the next sequence of the
\* transport and `time` the time of the last advance_time.  The peer's datagrams
\* carry one message: id 0 or 1 on the reliable channel 0, or one on the unreliable
\* channel 1
FreshCalls(phase, sent, sequence, time) ==
    {[op |-> "send_message", channel |-> ch,
      message |-> Message(<<"application", phase, sent>>, SizeOfM)] : ch \in 0..1}
    \cup {[op |-> "receive_message", channel |-> ch] : ch \in 0..1}
    \cup {[op |-> "generate_packet", sequence |-> sequence]}
    \cup {[op |-> "process_packet", sequence |-> IF phase = "before" THEN 0 ELSE 1,
           channel_data |-> <<[channel_index |-> ch[1],
                               messages |-> <<<<ch[2],
                                    Message(<<"peer", phase, ch[2]>>, SizeOfM)>>>>]>>] :
            ch \in {<<0, 0>>, <<0, 1>>, <<1, 0>>}}
    \cup {[op |-> "process_acks", ack |-> ack] : ack \in 0..(sequence - 1)}
    \cup {[op |-> "advance_time", time |-> time + 1] : t \in {time} \ {FreshMaxTime}}

NoOutput == [written |-> <<>>, returned |-> NoneOpt, accepted |-> TRUE]

\* [panic, conn, out]: the call made on conn; `out` is what the caller gets back: the
\* payload generate_packet wrote, the message receive_message returned, the result of
\* process_packet
Connection_call(conn, call) ==
    CASE call.op = "send_message" ->
            The({[panic |-> res.panic, conn |-> res.conn, out |-> NoOutput]
                 : res \in {Connection_send_message(conn, call.channel, call.message)}})
      [] call.op = "receive_message" ->
            The({[panic |-> res.panic, conn |-> res.conn,
                  out |-> [NoOutput EXCEPT !.returned = res.message]]
                 : res \in {Connection_receive_message(conn, call.channel)}})
      [] call.op = "generate_packet" ->
            The({[panic |-> res.panic, conn |-> res.conn,
                  out |-> [NoOutput EXCEPT !.written = res.fields]]
                 : res \in {Connection_generate_packet(conn, call.sequence,
                                conn.config.max_packet_size, TRUE)}})
      [] call.op = "process_packet" ->
            The({[panic |-> res.panic, conn |-> res.conn,
                  out |-> [NoOutput EXCEPT !.accepted = res.result]]
                 : res \in {Connection_process_packet(conn, call.sequence,
                                ConnectionPacket_serialize(call.channel_data, conn.config,
                                    conn.config.max_packet_size).fields)}})
      [] call.op = "process_acks" ->
            The({[panic |-> res.panic, conn |-> res.conn, out |-> NoOutput]
                 : res \in {Connection_process_acks(conn, <<call.ack>>)}})
      [] call.op = "advance_time" ->
            [panic |-> "", conn |-> Connection_advance_time(conn, call.time),
             out |-> NoOutput]

\* what the call leaves of the counters of the owner
FreshCounted(s, call) ==
    [s EXCEPT !.calls = @ + 1,
              !.sent = IF call.op = "send_message" THEN @ + 1 ELSE @,
              !.sequence = IF call.op = "generate_packet" THEN @ + 1 ELSE @,
              !.time = IF call.op = "advance_time" THEN call.time ELSE @]

InitFresh ==
    /\ subject = [conn |-> Connection_new(ChannelsConfig, 0), twin |-> NoneOpt,
                  phase |-> "before", calls |-> 0, sent |-> 0, sequence |-> 0, time |-> 0,
                  panic |-> "", twin_panic |-> "", out |-> NoOutput, twin_out |-> NoOutput]
    /\ client = NoneOpt /\ server = NoneOpt
    /\ NoTransport

\* a call on the connection before it is reset
CallBefore ==
    /\ subject.phase = "before"
    /\ subject.panic = ""
    /\ subject.calls < FreshCallsBefore
    /\ \E call \in FreshCalls("before", subject.sent, subject.sequence, subject.time) :
       \E res \in {Connection_call(subject.conn, call)} :
           subject' = [FreshCounted(subject, call) EXCEPT
                            !.conn = res.conn, !.panic = res.panic, !.out = res.out]
    /\ UNCHANGED <<client, server, transport>>

\* the connection is reset; a new one is constructed from the same config at this time
ResetFresh ==
    /\ subject.phase = "before"
    /\ subject.panic = ""
    /\ subject' = [subject EXCEPT !.conn = Connection_reset(@),
                                  !.twin = Some(Connection_new(ChannelsConfig, subject.time)),
                                  !.phase = "after", !.calls = 0,
                                  !.out = NoOutput]
    /\ UNCHANGED <<client, server, transport>>

\* the same call on the connection that was reset and on the new one
CallAfter ==
    /\ subject.phase = "after"
    /\ subject.panic = "" /\ subject.twin_panic = ""
    /\ subject.calls < FreshCallsAfter
    /\ \E call \in FreshCalls("after", subject.sent, subject.sequence, subject.time) :
       \E res \in {Connection_call(subject.conn, call)} :
       \E new \in {Connection_call(Unwrap(subject.twin), call)} :
           subject' = [FreshCounted(subject, call) EXCEPT
                            !.conn = res.conn, !.panic = res.panic, !.out = res.out,
                            !.twin = Some(new.conn), !.twin_panic = new.panic,
                            !.twin_out = new.out]
    /\ UNCHANGED <<client, server, transport>>

NextFresh == CallBefore \/ ResetFresh \/ CallAfter

SpecFresh == InitFresh /\ [][NextFresh]_vars

\* what the owner can ask a connection: error_level, can_send_message and
\* has_messages_to_send of every channel
Observed(conn) ==
    [error_level |-> Connection_error_level(conn),
     can_send_message |-> [i \in 1..Len(conn.channels) |->
                                Connection_can_send_message(conn, i - 1)],
     has_messages_to_send |-> [i \in 1..Len(conn.channels) |->
                                Connection_has_messages_to_send(conn, i - 1)]]

\* the messages `out` hands over: those written to the payload and the one returned
OutputMessages(out) ==
    {Unwrap(out.written[i].m) : i \in {j \in 1..Len(out.written) : out.written[j].m # NoneOpt}}
    \cup {message[2].value : message \in out.returned}

\* after reset() the connection answers every call as the new connection does, panics
\* where it does, and hands over no message passed in before the reset
FreshBehaviour ==
    subject.phase = "after" =>
        /\ subject.out = subject.twin_out
        /\ subject.panic = subject.twin_panic
        /\ Observed(subject.conn) = Observed(Unwrap(subject.twin))
        /\ \A value \in OutputMessages(subject.out) : value[2] = "after"

\* C16: after reset() the connection behaves like a new one for every sequence of
\* calls; right after it the error level is None, every channel accepts sends and has
\* nothing to send, receive_message returns nothing on every channel and the reliable
\* message ids restart at 0
C16_ResetIsFresh ==
    /\ FreshBehaviour
    /\ (subject.phase = "after" /\ subject.calls = 0) =>
        /\ Observed(subject.conn) =
            [error_level |-> "None",
             can_send_message |-> [i \in 1..Len(subject.conn.channels) |-> TRUE],
             has_messages_to_send |-> [i \in 1..Len(subject.conn.channels) |-> FALSE]]
        /\ \A i \in 1..Len(subject.conn.channels) :
            Connection_receive_message(subject.conn, i - 1).message = NoneOpt
        /\ subject.conn.channels[1].processor.send_message_id = 0

----------------------------------------------------------------------------
(* client.rs *)

\* the states netcode_client_state reports: below DISCONNECTED are the errors (connect
\* token expired, invalid connect token, timeouts, connection denied)
NETCODE_CLIENT_STATE_DISCONNECTED == 0
NETCODE_CLIENT_STATE_SENDING_CONNECTION_REQUEST == 1
NETCODE_CLIENT_STATE_SENDING_CONNECTION_RESPONSE == 2
NETCODE_CLIENT_STATE_CONNECTED == 3
NetcodeClientStates == (-6)..NETCODE_CLIENT_STATE_CONNECTED

client_state_from_netcode_state(state) ==
    IF state < NETCODE_CLIENT_STATE_DISCONNECTED THEN "Error"
    ELSE IF state = NETCODE_CLIENT_STATE_DISCONNECTED THEN "Disconnected"
    ELSE IF state = NETCODE_CLIENT_STATE_SENDING_CONNECTION_REQUEST
            \/ state = NETCODE_CLIENT_STATE_SENDING_CONNECTION_RESPONSE
    THEN "Connecting"
    ELSE "Connected"

\* `endpoint` is whether the reliable endpoint exists (the pointer is not null),
\* `client` the netcode client: NoneOpt for the null pointer, else the state netcode
\* keeps for it.  network_simulator is None throughout and is left out
Client_new(config, time) ==
    [config |-> config,
     endpoint |-> FALSE,
     connection |-> NoneOpt,
     client_state |-> "Disconnected",
     time |-> time,
     client |-> NoneOpt,
     client_id |-> 0]

Client_destroy_client(cl) == [cl EXCEPT !.client = NoneOpt]

\* destroy_internal that leaves the connection in place
Client_destroy_internal_keeping(cl) == [cl EXCEPT !.endpoint = FALSE]

Client_destroy_internal(cl) == [cl EXCEPT !.endpoint = FALSE, !.connection = NoneOpt]

Client_disconnect(cl) ==
    [Client_destroy_internal(Client_destroy_client([cl EXCEPT !.client_state = "Disconnected"]))
        EXCEPT !.client_id = 0]

Client_connect_internal(cl) ==
    [cl EXCEPT !.connection = Some(Connection_new(cl.config, cl.time)),
               !.endpoint = TRUE]

\* `created` is whether netcode_client_create returned a client
Client_create_client(cl, created) ==
    [Client_destroy_client(cl) EXCEPT !.client =
        IF created THEN Some(NETCODE_CLIENT_STATE_DISCONNECTED) ELSE NoneOpt]

\* `token` is whether generate_insecure_connect_token returned a token;
\* netcode_client_connect leaves the netcode client sending connection requests
Client_insecure_connect(cl, client_id, created, token) ==
    The({IF with.client = NoneOpt THEN Client_disconnect(with)
         ELSE IF ~token THEN [with EXCEPT !.client_state = "Error"]
         ELSE [with EXCEPT
                    !.client = Some(NETCODE_CLIENT_STATE_SENDING_CONNECTION_REQUEST),
                    !.client_state = "Connecting"]
         : with \in {Client_create_client(
                        [Client_connect_internal(Client_disconnect(cl))
                            EXCEPT !.client_id = client_id], created)}})

\* The second half of advance_time: netcode_client_update moves the netcode client
\* to netcode_state, which netcode_client_state then reports
Client_advance_time_netcode(cl, netcode_state) ==
    IF cl.client = NoneOpt THEN cl
    ELSE The({IF with.client_state \in {"Disconnected", "Error"}
              THEN Client_disconnect(with)
              ELSE with
              : with \in {[cl EXCEPT
                            !.client = Some(netcode_state),
                            !.client_state = client_state_from_netcode_state(netcode_state)]}})

\* [panic, cl, error_level]: error_level is what connection.error_level() returned
\* after connection.advance_time ("None" when there is no connection to advance);
\* `acks` are the acks of the reliable endpoint
Client_advance_time(cl, new_time, acks, netcode_state) ==
    IF cl.endpoint /\ cl.connection # NoneOpt
    THEN The({IF Connection_error_level(advanced) # "None"
              THEN [panic |-> "", error_level |-> Connection_error_level(advanced),
                    cl |-> Client_disconnect(
                            [cl EXCEPT !.time = new_time, !.connection = Some(advanced)])]
              ELSE The({IF res.panic # ""
                        THEN [panic |-> res.panic, error_level |-> "None", cl |-> cl]
                        ELSE [panic |-> "", error_level |-> "None",
                              cl |-> Client_advance_time_netcode(
                                        [cl EXCEPT !.time = new_time,
                                                   !.connection = Some(res.conn)],
                                        netcode_state)]
                        : res \in {Connection_process_acks(advanced, acks)}})
              : advanced \in {Connection_advance_time(Unwrap(cl.connection), new_time)}})
    ELSE [panic |-> "", error_level |-> "None",
          cl |-> Client_advance_time_netcode([cl EXCEPT !.time = new_time], netcode_state)]

\* [panic, cl]: the connection is unwrapped
Client_send_message(cl, channel_index, message) ==
    IF cl.connection = NoneOpt
    THEN [panic |-> "send_message: unwrap on None", cl |-> cl]
    ELSE The({[panic |-> res.panic, cl |-> [cl EXCEPT !.connection = Some(res.conn)]]
              : res \in {Connection_send_message(Unwrap(cl.connection), channel_index,
                                                 message)}})

Client_is_connected(cl) == cl.client_state = "Connected"

Client_is_disconnected(cl) == cl.client_state \in {"Disconnected", "Error"}

Client_connection_failed(cl) == cl.client_state = "Error"

----------------------------------------------------------------------------
(* A client: its application connects, sends, advances time and disconnects, while
   netcode moves through its states *)

\* the time the client is advanced to at most, and the number of connects
ClientMaxTime == 2
ClientMaxConnects == 2

\* the messages the application sends on one channel at most
ClientMaxSends == 2

\* two unreliable channels whose send queues hold one message
ClientConfig ==
    ConnectionConfig(DefaultMaxPacketSize,
        [i \in 1..2 |-> [ChannelConfig_new(UnreliableUnordered) EXCEPT
                            !.message_send_queue_size = SizeOfM]])

\* `client` is the Client (cl) with what the harness keeps beside it: the panic that
\* ended it, the number of connects and of sends made, and, when the last call was
\* advance_time, the client it was called on, the state netcode reported in it and
\* what connection.error_level() returned in it
InitClient ==
    /\ client = [cl |-> Client_new(ClientConfig, 0), panic |-> "", connects |-> 0,
                 sends |-> <<0, 0>>, last |-> NoneOpt]
    /\ server = NoneOpt /\ subject = NoneOpt
    /\ NoTransport

ClientConnect(created, token) ==
    /\ client.panic = ""
    /\ client.connects < ClientMaxConnects
    /\ client' = [client EXCEPT
            !.cl = Client_insecure_connect(client.cl, 1, created, token),
            !.connects = @ + 1, !.sends = <<0, 0>>, !.last = NoneOpt]
    /\ UNCHANGED <<server, subject, transport>>

ClientSendMessage(channel_index) ==
    /\ client.panic = ""
    /\ client.sends[channel_index + 1] < ClientMaxSends
    /\ \E res \in {Client_send_message(client.cl, channel_index,
                        Message(<<"client", channel_index, client.sends[channel_index + 1]>>,
                                SizeOfM))} :
           client' = [client EXCEPT !.cl = res.cl, !.panic = res.panic,
                                    !.sends[channel_index + 1] = @ + 1,
                                    !.last = NoneOpt]
    /\ UNCHANGED <<server, subject, transport>>

\* no packet was sent, so the reliable endpoint has no acks
ClientAdvanceTime(netcode_state) ==
    /\ client.panic = ""
    /\ client.cl.time < ClientMaxTime
    /\ \E res \in {Client_advance_time(client.cl, client.cl.time + 1, <<>>, netcode_state)} :
           client' = [client EXCEPT
                        !.cl = res.cl, !.panic = res.panic,
                        !.last = Some([before |-> client.cl, netcode_state |-> netcode_state,
                                       error_level |-> res.error_level])]
    /\ UNCHANGED <<server, subject, transport>>

ClientDisconnect ==
    /\ client.panic = ""
    /\ client' = [client EXCEPT !.cl = Client_disconnect(client.cl), !.last = NoneOpt]
    /\ UNCHANGED <<server, subject, transport>>

NextClient ==
    \/ \E created, token \in BOOLEAN : ClientConnect(created, token)
    \/ \E channel_index \in 0..1 : ClientSendMessage(channel_index)
    \/ \E netcode_state \in NetcodeClientStates : ClientAdvanceTime(netcode_state)
    \/ ClientDisconnect

SpecClient == InitClient /\ [][NextClient]_vars

\* the connection of cl has a channel in error
ClientChannelInError(cl) ==
    /\ cl.endpoint
    /\ \E conn \in cl.connection : \E i \in 1..Len(conn.channels) :
            Channel_error_level(conn.channels[i]) # "None"

\* C11: when a channel of the connection is in error as advance_time runs, the error
\* level of the connection is Channel after Connection::advance_time, and the client
\* ends the call Disconnected, without its connection and without its endpoint
C11_ErrorPropagation ==
    \A last \in client.last :
        ClientChannelInError(last.before) =>
            /\ last.error_level = "Channel"
            /\ client.cl.client_state = "Disconnected"
            /\ client.cl.connection = NoneOpt
            /\ ~client.cl.endpoint

\* a connected client whose second channel alone was in error has advanced time
C11_Witness ==
    \E last \in client.last :
        /\ ClientChannelInError(last.before)
        /\ Client_is_connected(last.before)
        /\ Channel_error_level(Unwrap(last.before.connection).channels[1]) = "None"

\* C14: when netcode reports an error state to a client that is Connecting or
\* Connected, the client is in state Error after advance_time (connection_failed and
\* is_disconnected return true), and a client in state Error is still in it after
\* advance_time
C14_TransportErrorIsError ==
    \A last \in client.last :
        /\ (/\ last.before.client_state \in {"Connecting", "Connected"}
            /\ last.before.client # NoneOpt
            /\ last.error_level = "None"
            /\ last.netcode_state < NETCODE_CLIENT_STATE_DISCONNECTED)
           => Client_connection_failed(client.cl) /\ Client_is_disconnected(client.cl)
        /\ Client_connection_failed(last.before) => Client_connection_failed(client.cl)

----------------------------------------------------------------------------
(* network_simulator.rs *)

\* Times are in milliseconds and percents in hundredths.  `capacity` is the capacity of
\* the VecDeque of entries: VecDeque::with_capacity(max_packets) has capacity
\* max_packets (the test does_not_exceed_capacity asserts so)
NetworkSimulator_new(max_packets, time) ==
    [entries |-> <<>>, capacity |-> max_packets, time |-> time, latency |-> 0,
     jitter |-> 0, packet_loss |-> 0, duplicates |-> 0, active |-> FALSE]

NetworkSimulator_update_active(ns) ==
    The({IF ns.active /\ ~active THEN [ns EXCEPT !.active = active, !.entries = <<>>]
         ELSE [ns EXCEPT !.active = active]
         : active \in {ns.latency # 0 \/ ns.jitter # 0 \/ ns.packet_loss # 0
                       \/ ns.duplicates # 0}})

NetworkSimulator_set_latency(ns, milliseconds) ==
    NetworkSimulator_update_active([ns EXCEPT !.latency = milliseconds])

NetworkSimulator_set_jitter(ns, milliseconds) ==
    NetworkSimulator_update_active([ns EXCEPT !.jitter = milliseconds])

NetworkSimulator_set_packet_loss(ns, percent) ==
    NetworkSimulator_update_active([ns EXCEPT !.packet_loss = percent])

NetworkSimulator_set_duplicates(ns, percent) ==
    NetworkSimulator_update_active([ns EXCEPT !.duplicates = percent])

NetworkSimulator_active(ns) == ns.active

\* entries.retain(|entry| !entry.consumed)
NetworkSimulator_advance_time(ns, time) ==
    [ns EXCEPT !.time = time,
               !.entries = SelectSeq(ns.entries, LAMBDA entry : ~entry.consumed)]

\* pop_front on the full deque, then push_back; push_back on a deque of capacity 0
\* allocates, and `grown` is the capacity the allocation gives it
NetworkSimulator_push_packet(ns, entry, grown) ==
    The({[popped EXCEPT !.entries = Append(popped.entries, entry),
                        !.capacity = IF Len(popped.entries) = popped.capacity
                                     THEN grown ELSE @]
         : popped \in {IF Len(ns.entries) = ns.capacity
                       THEN [ns EXCEPT !.entries = IF @ = <<>> THEN @ ELSE Tail(@)]
                       ELSE ns}})

PacketEntry(client_index, delievery_time, packet_data) ==
    [destination_client_index |-> client_index, delievery_time |-> delievery_time,
     packet_data |-> packet_data, consumed |-> FALSE]

\* rng is what the three draws of the random number generator gave: whether the packet
\* is lost, the jitter of its delay, whether it is duplicated and the delay added to
\* the duplicate
NetworkSimulator_send_packet(ns, client_index, packet_data, rng, grown) ==
    IF rng.lost THEN ns
    ELSE The({IF rng.duplicated
              THEN NetworkSimulator_push_packet(pushed,
                      [pushed.entries[Len(pushed.entries)] EXCEPT
                            !.delievery_time = ns.time + ns.latency + rng.jitter + rng.extra],
                      grown)
              ELSE pushed
              : pushed \in {NetworkSimulator_push_packet(ns,
                                PacketEntry(client_index,
                                            ns.time + ns.latency + rng.jitter, packet_data),
                                grown)}})

\* the draws the random number generator can give a simulator: gen::<f32>() is in
\* [0, 1), so a packet can be lost when packet_loss > 0 and kept when packet_loss < 1
NetworkSimulator_rng(ns) ==
    {rng \in [lost : BOOLEAN, jitter : {-ns.jitter, ns.jitter}, duplicated : BOOLEAN,
              extra : {0, 500}] :
        /\ rng.lost => ns.packet_loss > 0
        /\ ~rng.lost => ns.packet_loss < 100
        /\ rng.duplicated => ns.duplicates > 0 /\ ~rng.lost
        /\ (~rng.duplicated /\ ~rng.lost) => ns.duplicates < 100
        /\ ~rng.duplicated => rng.extra = 0
        /\ rng.lost => rng.jitter = ns.jitter}

\* [panic, ns, packets]: the iterator run to its end, from entry i on
RECURSIVE NetworkSimulator_receive_packets_loop(_, _, _)
NetworkSimulator_receive_packets_loop(ns, packets, i) ==
    IF i > Len(ns.entries) THEN [panic |-> "", ns |-> ns, packets |-> packets]
    ELSE IF ns.entries[i].consumed
    THEN [panic |-> "consumed packet found on receive", ns |-> ns, packets |-> packets]
    ELSE IF ns.entries[i].delievery_time < ns.time
    THEN NetworkSimulator_receive_packets_loop(
            [ns EXCEPT !.entries[i].consumed = TRUE],
            Append(packets, <<ns.entries[i].destination_client_index,
                              ns.entries[i].packet_data>>),
            i + 1)
    ELSE NetworkSimulator_receive_packets_loop(ns, packets, i + 1)

NetworkSimulator_receive_packets(ns) ==
    IF ~ns.active
    THEN [panic |-> "check network simulator is active before calling receive packets",
          ns |-> ns, packets |-> <<>>]
    ELSE NetworkSimulator_receive_packets_loop(ns, <<>>, 1)

NetworkSimulator_discard_packets(ns) == [ns EXCEPT !.entries = <<>>]

NetworkSimulator_discard_client_packets(ns, client_index) ==
    [ns EXCEPT !.entries =
        SelectSeq(ns.entries, LAMBDA entry : entry.destination_client_index # client_index)]

----------------------------------------------------------------------------
(* server.rs *)

\* ServerRuntime::new: one connection for every client slot and a netcode server on
\* which no client is connected (client_connected is the state of netcode_server_t)
Server_start(config, max_clients, time) ==
    [config |-> config, time |-> time, max_clients |-> max_clients,
     client_connected |-> [i \in 1..max_clients |-> FALSE],
     client_connection |-> [i \in 1..max_clients |-> Connection_new(config, time)],
     network_simulator |-> NoneOpt]

\* ServerRuntime::new with a config that has a network simulator; the simulator keeps
\* its time in milliseconds
Server_start_simulated(config, max_clients, time, max_simulator_packets) ==
    [Server_start(config, max_clients, time) EXCEPT
        !.network_simulator = Some(NetworkSimulator_new(max_simulator_packets, time * 1000))]

\* with_network_simulator(|simulator| simulator.set_latency(milliseconds))
Server_set_latency(sv, milliseconds) ==
    [sv EXCEPT !.network_simulator =
        {NetworkSimulator_set_latency(ns, milliseconds) : ns \in @}]

\* ServerRuntime::transmit_packet, the callback of the reliable endpoint of the slot: an
\* active simulator keeps the packet until advance_time, otherwise netcode sends it
Server_transmit_packet(sv, client_index, packet_data, rng, grown) ==
    [sv EXCEPT !.network_simulator =
        {IF NetworkSimulator_active(ns)
         THEN NetworkSimulator_send_packet(ns, client_index, packet_data, rng, grown)
         ELSE ns : ns \in @}]

\* [panic, sv]: the loop of send_packets over the slots from client_index on;
\* sequences[i] is the next packet sequence of the reliable endpoint of slot i - 1 and
\* rngs[i] the draws of the simulator for its packet
RECURSIVE Server_send_packets_loop(_, _, _, _, _)
Server_send_packets_loop(sv, sequences, rngs, grown, client_index) ==
    IF client_index >= sv.max_clients THEN [panic |-> "", sv |-> sv]
    ELSE IF ~sv.client_connected[client_index + 1]
    THEN Server_send_packets_loop(sv, sequences, rngs, grown, client_index + 1)
    ELSE The({IF res.panic # "" THEN [panic |-> res.panic, sv |-> sv]
              ELSE Server_send_packets_loop(
                      The({IF res.bytes > 0
                           THEN Server_transmit_packet(with, client_index, res.fields,
                                                       rngs[client_index + 1], grown)
                           ELSE with
                           : with \in {[sv EXCEPT !.client_connection[client_index + 1] =
                                                    res.conn]}}),
                      sequences, rngs, grown, client_index + 1)
              : res \in {Connection_generate_packet(
                            sv.client_connection[client_index + 1],
                            sequences[client_index + 1], sv.config.max_packet_size, TRUE)}})

Server_send_packets(sv, sequences, rngs, grown) ==
    Server_send_packets_loop(sv, sequences, rngs, grown, 0)

Server_is_client_connected(sv, client_index) == sv.client_connected[client_index + 1]

\* [panic, sv]: the slot is indexed whether or not a client is connected on it
Server_send_message(sv, client_index, channel_index, message) ==
    The({[panic |-> res.panic,
          sv |-> [sv EXCEPT !.client_connection[client_index + 1] = res.conn]]
         : res \in {Connection_send_message(sv.client_connection[client_index + 1],
                                            channel_index, message)}})

\* [panic, sv, result]: ServerRuntime::process_packet, the callback of the reliable
\* endpoint of the slot
Server_process_packet(sv, client_index, sequence, fields) ==
    The({[panic |-> res.panic, result |-> res.result,
          sv |-> [sv EXCEPT !.client_connection[client_index + 1] = res.conn]]
         : res \in {Connection_process_packet(sv.client_connection[client_index + 1],
                                              sequence, fields)}})

\* handle_connect_disconnect that discards the pending packets of every slot
Server_handle_connect_disconnect_discarding(sv, client_index, connected) ==
    IF connected THEN sv
    ELSE [sv EXCEPT !.client_connection[client_index + 1] = Connection_reset(@),
                    !.network_simulator = {NetworkSimulator_discard_packets(ns) : ns \in @}]

Server_handle_connect_disconnect(sv, client_index, connected) ==
    IF connected THEN sv
    ELSE [sv EXCEPT !.client_connection[client_index + 1] = Connection_reset(@),
                    !.network_simulator =
                        {NetworkSimulator_discard_client_packets(ns, client_index)
                            : ns \in @}]

\* netcode disconnects the client of a slot and reports it through the
\* connect/disconnect callback; on a slot without a client there is no disconnect to
\* report
netcode_server_disconnect_client(sv, client_index) ==
    IF ~sv.client_connected[client_index + 1] THEN sv
    ELSE Server_handle_connect_disconnect(
            [sv EXCEPT !.client_connected[client_index + 1] = FALSE], client_index, FALSE)

\* netcode connects a client on a slot and reports it through the callback
netcode_server_connect_client(sv, client_index) ==
    IF sv.client_connected[client_index + 1] THEN sv
    ELSE Server_handle_connect_disconnect(
            [sv EXCEPT !.client_connected[client_index + 1] = TRUE], client_index, TRUE)

\* netcode_server_update from slot client_index on: on the slots of `events` a client
\* connects, or the connected client times out
RECURSIVE netcode_server_update(_, _, _)
netcode_server_update(sv, events, client_index) ==
    IF client_index >= sv.max_clients THEN sv
    ELSE netcode_server_update(
            IF client_index \notin events THEN sv
            ELSE IF sv.client_connected[client_index + 1]
                 THEN netcode_server_disconnect_client(sv, client_index)
                 ELSE netcode_server_connect_client(sv, client_index),
            events, client_index + 1)

\* the free function disconnect_client
disconnect_client(sv, client_index) == netcode_server_disconnect_client(sv, client_index)

\* [panic, sv]: the loop of advance_time over the slots from client_index on; acks[i]
\* are the acks of the reliable endpoint of slot i - 1
RECURSIVE Server_advance_time_loop(_, _, _, _)
Server_advance_time_loop(sv, new_time, acks, client_index) ==
    IF client_index >= sv.max_clients THEN [panic |-> "", sv |-> sv]
    ELSE The({IF Connection_error_level(advanced) # "None"
              THEN Server_advance_time_loop(
                      disconnect_client(
                          [sv EXCEPT !.client_connection[client_index + 1] = advanced],
                          client_index),
                      new_time, acks, client_index + 1)
              ELSE The({IF res.panic # "" THEN [panic |-> res.panic, sv |-> sv]
                        ELSE Server_advance_time_loop(
                                [sv EXCEPT !.client_connection[client_index + 1] = res.conn,
                                           !.network_simulator =
                                                {NetworkSimulator_advance_time(ns,
                                                    new_time * 1000) : ns \in @}],
                                new_time, acks, client_index + 1)
                        : res \in {Connection_process_acks(advanced, acks[client_index + 1])}})
              : advanced \in {Connection_advance_time(
                                 sv.client_connection[client_index + 1], new_time)}})

\* [panic, sv]: Server::advance_time leaves Server::time as it is
Server_advance_time(sv, new_time, acks, events) ==
    The({IF res.panic # "" \/ res.sv.network_simulator = NoneOpt
            \/ ~NetworkSimulator_active(Unwrap(res.sv.network_simulator))
         THEN res
         ELSE The({[panic |-> got.panic,
                    sv |-> [res.sv EXCEPT !.network_simulator = Some(got.ns)]]
                   : got \in {NetworkSimulator_receive_packets(
                                Unwrap(res.sv.network_simulator))}})
         : res \in {Server_advance_time_loop(netcode_server_update(sv, events, 0),
                                             new_time, acks, 0)}})

----------------------------------------------------------------------------
(* A server: clients connect and time out, the application sends to the slots, the
   clients' datagrams arrive, and time is advanced *)

\* the slots of the server, the time it is advanced to at most, the messages the
\* application sends to one slot at most and the datagrams one slot receives at most
ServerMaxClients == 2
ServerMaxTime == 2
ServerMaxSends == 2
ServerMaxPackets == 1

ServerSlots == 0..(ServerMaxClients - 1)

\* `server` is the Server (sv) with what the harness keeps beside it: the panic that
\* ended it, the time it was last advanced to, the number of sends and of datagrams of
\* every slot, and, when the last call was advance_time, the server it was called on
\* with the time and the netcode events of the call
InitServer ==
    /\ server = [sv |-> Server_start(ClientConfig, ServerMaxClients, 0), panic |-> "",
                 now |-> 0, sends |-> [i \in 1..ServerMaxClients |-> 0],
                 packets |-> [i \in 1..ServerMaxClients |-> 0], last |-> NoneOpt]
    /\ client = NoneOpt /\ subject = NoneOpt
    /\ NoTransport

ServerSendMessage(client_index, channel_index) ==
    /\ server.panic = ""
    /\ server.sends[client_index + 1] < ServerMaxSends
    /\ \E res \in {Server_send_message(server.sv, client_index, channel_index,
                        Message(<<"server", client_index, server.sends[client_index + 1]>>,
                                SizeOfM))} :
           server' = [server EXCEPT !.sv = res.sv, !.panic = res.panic,
                                    !.sends[client_index + 1] = @ + 1,
                                    !.last = NoneOpt]
    /\ UNCHANGED <<client, subject, transport>>

\* a datagram of the client of the slot, with one message on channel 0
ServerReceivePacket(client_index) ==
    /\ server.panic = ""
    /\ Server_is_client_connected(server.sv, client_index)
    /\ server.packets[client_index + 1] < ServerMaxPackets
    /\ \E res \in {Server_process_packet(server.sv, client_index,
                        server.packets[client_index + 1],
                        ConnectionPacket_serialize(
                            <<[channel_index |-> 0,
                               messages |-> <<<<0, Message(<<"client", client_index,
                                                   server.packets[client_index + 1]>>,
                                                   SizeOfM)>>>>]>>,
                            server.sv.config, server.sv.config.max_packet_size).fields)} :
           server' = [server EXCEPT !.sv = res.sv, !.panic = res.panic,
                                    !.packets[client_index + 1] = @ + 1,
                                    !.last = NoneOpt]
    /\ UNCHANGED <<client, subject, transport>>

\* no packet was sent, so the reliable endpoints have no acks
ServerNoAcks == [i \in 1..ServerMaxClients |-> <<>>]

ServerAdvanceTime(events) ==
    /\ server.panic = ""
    /\ server.now < ServerMaxTime
    /\ \E res \in {Server_advance_time(server.sv, server.now + 1, ServerNoAcks, events)} :
           server' = [server EXCEPT
                        !.sv = res.sv, !.panic = res.panic, !.now = @ + 1,
                        !.last = Some([before |-> server.sv, new_time |-> server.now + 1,
                                       events |-> events])]
    /\ UNCHANGED <<client, subject, transport>>

NextServer ==
    \/ \E client_index \in ServerSlots, channel_index \in 0..1 :
            ServerSendMessage(client_index, channel_index)
    \/ \E client_index \in ServerSlots : ServerReceivePacket(client_index)
    \/ \E events \in SUBSET ServerSlots : ServerAdvanceTime(events)

SpecServer == InitServer /\ [][NextServer]_vars

\* the connection of slot k is in error in the advance_time of `last`: its error level
\* is not None after Connection::advance_time
ServerSlotInError(last, k) ==
    Connection_error_level(
        Connection_advance_time(
            netcode_server_update(last.before, last.events, 0).client_connection[k + 1],
            last.new_time)) # "None"

\* the server of `last` with a connection on slot k that has not failed
ServerSlotHealthy(last, k) ==
    [last.before EXCEPT !.client_connection[k + 1] = Connection_new(last.before.config, 0)]

\* slot k is disconnected after advance_time and its connection is reset: no error
\* level on it or on its channels, and every channel takes a message
ServerSlotDisconnected(last, k) ==
    /\ ~Server_is_client_connected(server.sv, k)
    /\ \E conn \in {server.sv.client_connection[k + 1]} :
        /\ Connection_error_level(conn) = "None"
        /\ \A i \in 1..Len(conn.channels) :
            /\ Channel_error_level(conn.channels[i]) = "None"
            /\ Connection_can_send_message(conn, i - 1)

\* every slot but k is after advance_time as it is after the same advance_time of the
\* server whose slot k has not failed
ServerOthersUnaffected(last, k) ==
    \E healthy \in {Server_advance_time(ServerSlotHealthy(last, k), last.new_time,
                                        ServerNoAcks, last.events)} :
        /\ server.panic = healthy.panic
        /\ \A j \in ServerSlots \ {k} :
            /\ Server_is_client_connected(server.sv, j)
                    = Server_is_client_connected(healthy.sv, j)
            /\ server.sv.client_connection[j + 1] = healthy.sv.client_connection[j + 1]

\* C15: when the connection of slot k is in error during Server::advance_time, slot k
\* is disconnected after it (is_client_connected(k) is false and its connection is
\* reset), and the connected status, the error level and the queued and received
\* messages of every other slot are what they are when slot k has not failed
C15_SlotIsolation ==
    \A last \in server.last : \A k \in ServerSlots :
        ServerSlotInError(last, k) =>
            ServerSlotDisconnected(last, k) /\ ServerOthersUnaffected(last, k)

----------------------------------------------------------------------------
(* A SequenceBuffer whose owner inserts arbitrary keys, takes, reads and resets *)

\* the capacities of the buffer and the number of calls its owner makes
WindowMaxCapacity == 4
WindowMaxCalls == 3

\* the keys the owner uses: around 0, around the half of the range and below the wrap
WindowKeys == {0, 1, 2, 3, 32767, 32768, 65532, 65533, 65534, 65535}

\* the numbers of consecutive keys entered before the owner starts
WindowStarts == {0, 32766, 65533}

\* `subject` is the buffer with what the owner keeps beside it: the number of calls
\* made, the value the producer of the next insert returns, for every key the value of
\* its latest successful insert, and the last call with the buffer it was made on and
\* what it returned
InitWindow ==
    /\ \E size \in 1..WindowMaxCapacity :
       \E first \in WindowStarts :
           subject = [buffer |-> SequenceBuffer_after_inserts(size, first),
                      calls |-> 0,
                      latest |-> [k \in WindowKeys |->
                                    IF k < first THEN Some(SeqData(k, k)) ELSE NoneOpt],
                      last |-> NoneOpt]
    /\ client = NoneOpt /\ server = NoneOpt
    /\ NoTransport

\* the value the producer of the next insert of key k returns
WindowProduced(k) == SeqData(k, <<"call", subject.calls>>)

WindowInsert(k) ==
    /\ subject.calls < WindowMaxCalls
    /\ \E res \in {SequenceBuffer_insert_with(subject.buffer, k, WindowProduced(k))} :
           subject' = [subject EXCEPT
                !.buffer = res.sb, !.calls = @ + 1,
                !.latest[k] = IF res.ok THEN Some(WindowProduced(k)) ELSE @,
                !.last = Some([op |-> "insert_with", key |-> k, before |-> subject.buffer,
                               ok |-> res.ok, called |-> res.called,
                               value |-> Some(WindowProduced(k))])]
    /\ UNCHANGED <<client, server, transport>>

WindowTake(k) ==
    /\ subject.calls < WindowMaxCalls
    /\ \E res \in {SequenceBuffer_take(subject.buffer, k)} :
           subject' = [subject EXCEPT
                !.buffer = res.sb, !.calls = @ + 1,
                !.last = Some([op |-> "take", key |-> k, before |-> subject.buffer,
                               ok |-> res.value # NoneOpt, called |-> FALSE,
                               value |-> res.value])]
    /\ UNCHANGED <<client, server, transport>>

\* get and get_mut: the buffer is read
WindowGet(k, op) ==
    /\ subject.calls < WindowMaxCalls
    /\ \E value \in {IF op = "get" THEN SequenceBuffer_get(subject.buffer, k)
                     ELSE SequenceBuffer_get_mut(subject.buffer, k)} :
           subject' = [subject EXCEPT
                !.calls = @ + 1,
                !.last = Some([op |-> op, key |-> k, before |-> subject.buffer,
                               ok |-> value # NoneOpt, called |-> FALSE,
                               value |-> value])]
    /\ UNCHANGED <<client, server, transport>>

WindowReset ==
    /\ subject.calls < WindowMaxCalls
    /\ subject' = [subject EXCEPT
            !.buffer = SequenceBuffer_reset(@), !.calls = @ + 1, !.last = NoneOpt]
    /\ UNCHANGED <<client, server, transport>>

NextWindow ==
    \/ \E k \in WindowKeys : WindowInsert(k)
    \/ \E k \in WindowKeys : WindowTake(k)
    \/ \E k \in WindowKeys, op \in {"get", "get_mut"} : WindowGet(k, op)
    \/ WindowReset

SpecWindow == InitWindow /\ [][NextWindow]_vars

\* insert_with(k, f) on buffer sb is refused by the rule of the cursor: k + 1 is not
\* greater than the cursor, and k is older than the cursor minus the capacity
WindowTooOld(sb, k) ==
    /\ ~sequence_greater_than(WrappingAdd(k, 1), SequenceBuffer_sequence_pointer(sb))
    /\ sequence_less_than(k, WrappingSub(SequenceBuffer_sequence_pointer(sb),
                                         SequenceBuffer_capacity(sb)))

\* key k lies in the window of the capacity keys below the cursor of sb
WindowHolds(sb, k) ==
    WrappingSub(WrappingSub(SequenceBuffer_sequence_pointer(sb), 1), k)
        < SequenceBuffer_capacity(sb)

\* C21: insert_with(k, f) returns false exactly when k + 1 is not greater than the
\* cursor and k is older than the cursor minus the capacity; then f is not called and
\* the cursor and the slots are unchanged; otherwise it returns true, f is called once
\* and get(k) returns the value f produced
C21_InsertRefusal ==
    \A last \in subject.last :
        last.op = "insert_with" =>
            /\ ~last.ok <=> WindowTooOld(last.before, last.key)
            /\ ~last.ok => ~last.called /\ subject.buffer = last.before
            /\ last.ok => /\ last.called
                          /\ SequenceBuffer_get(subject.buffer, last.key) = last.value

\* an insert was refused on a buffer that had entries
C21_Witness ==
    \E last \in subject.last :
        /\ last.op = "insert_with"
        /\ ~last.ok
        /\ \E i \in 1..SequenceBuffer_capacity(last.before) :
                last.before.entry_sequence[i] # NoneOpt

C24_WindowInvariant ==
    \A i \in 1..SequenceBuffer_capacity(subject.buffer) :
        \A k \in subject.buffer.entry_sequence[i] :
            /\ k % SequenceBuffer_capacity(subject.buffer) = i - 1
            /\ WindowHolds(subject.buffer, k)

\* C25: a successful insert_with(k) sets the cursor to k + 1 exactly when k + 1 is
\* greater than the cursor and leaves it otherwise; take, get and get_mut leave the
\* cursor; an insert of the key at the cursor leaves the cursor one past that key
C25_CursorRule ==
    \A last \in subject.last :
        /\ (last.op = "insert_with" /\ last.ok) =>
            /\ SequenceBuffer_sequence_pointer(subject.buffer) =
                IF sequence_greater_than(WrappingAdd(last.key, 1),
                                         SequenceBuffer_sequence_pointer(last.before))
                THEN WrappingAdd(last.key, 1)
                ELSE SequenceBuffer_sequence_pointer(last.before)
            /\ last.key = SequenceBuffer_sequence_pointer(last.before) =>
                SequenceBuffer_sequence_pointer(subject.buffer) = WrappingAdd(last.key, 1)
        /\ last.op \in {"take", "get", "get_mut"} =>
            SequenceBuffer_sequence_pointer(subject.buffer)
                = SequenceBuffer_sequence_pointer(last.before)

\* a key below the cursor and inside the window was inserted over an entry
C25_Witness ==
    \E last \in subject.last :
        /\ last.op = "insert_with" /\ last.ok
        /\ ~sequence_greater_than(WrappingAdd(last.key, 1),
                                  SequenceBuffer_sequence_pointer(last.before))
        /\ ~SequenceBuffer_available(last.before, last.key)

\* C26: for every key k exactly one of exists(k) and available(k) is true
C26_ExistsAvailableInverse ==
    \A k \in WindowKeys :
        SequenceBuffer_exists(subject.buffer, k) # SequenceBuffer_available(subject.buffer, k)

\* C26 as the code has it: exists(k) and available(k) are never both true, and both are
\* false exactly when the slot of k records another key
C26_ExistsAvailableExclusive ==
    \A k \in WindowKeys :
        /\ ~(SequenceBuffer_exists(subject.buffer, k)
             /\ SequenceBuffer_available(subject.buffer, k))
        /\ (~SequenceBuffer_exists(subject.buffer, k)
            /\ ~SequenceBuffer_available(subject.buffer, k))
           <=> \E other \in subject.buffer.entry_sequence[
                        (k % SequenceBuffer_capacity(subject.buffer)) + 1] : other # k

\* the slot of the key at the cursor records the key one capacity below it
C26_Witness ==
    \E k \in WindowKeys :
        /\ k = SequenceBuffer_sequence_pointer(subject.buffer)
        /\ ~SequenceBuffer_exists(subject.buffer, k)
        /\ ~SequenceBuffer_available(subject.buffer, k)

----------------------------------------------------------------------------
(* A network simulator: its owner sets it up, sends, advances time, receives and
   discards *)

\* the largest max_simulator_packets, the number of packets sent and of properties
\* set at most, and the time in seconds the simulator is advanced to at most
SimulatorMaxPackets == 2
SimulatorMaxSends == 3
SimulatorMaxSets == 2
SimulatorMaxTime == 1

\* the capacities an allocating push_back can give a VecDeque that had none
SimulatorGrown == {1, 4}

\* `subject` is the simulator (ns) with what its owner keeps beside it: the configured
\* max_simulator_packets, the panic that ended it, the numbers of packets sent and of
\* properties set, and the
\* last call with the simulator it was made on and, for receive_packets, the packets
\* it returned
InitSimulator ==
    /\ \E max_packets \in 0..SimulatorMaxPackets :
        subject = [ns |-> NetworkSimulator_new(max_packets, 0),
                   max_simulator_packets |-> max_packets, panic |-> "", sends |-> 0,
                   sets |-> 0,
                   last |-> NoneOpt]
    /\ client = NoneOpt /\ server = NoneOpt
    /\ NoTransport

SimulatorSet(property, value) ==
    /\ subject.panic = ""
    /\ subject.sets < SimulatorMaxSets
    /\ subject' = [subject EXCEPT
            !.sets = @ + 1,
            !.ns = CASE property = "latency" -> NetworkSimulator_set_latency(@, value)
                     [] property = "jitter" -> NetworkSimulator_set_jitter(@, value)
                     [] property = "packet_loss" -> NetworkSimulator_set_packet_loss(@, value)
                     [] property = "duplicates" -> NetworkSimulator_set_duplicates(@, value),
            !.last = NoneOpt]
    /\ UNCHANGED <<client, server, transport>>

SimulatorSendPacket(client_index) ==
    /\ subject.panic = ""
    /\ subject.sends < SimulatorMaxSends
    /\ \E rng \in NetworkSimulator_rng(subject.ns), grown \in SimulatorGrown :
        subject' = [subject EXCEPT
            !.ns = NetworkSimulator_send_packet(@, client_index, subject.sends, rng, grown),
            !.sends = @ + 1,
            !.last = Some([op |-> "send_packet", before |-> subject.ns, rng |-> rng,
                           packets |-> <<>>])]
    /\ UNCHANGED <<client, server, transport>>

SimulatorAdvanceTime(seconds) ==
    /\ subject.panic = ""
    /\ subject.ns.time + 1000 * seconds <= 1000 * SimulatorMaxTime
    /\ subject' = [subject EXCEPT
            !.ns = NetworkSimulator_advance_time(@, @.time + 1000 * seconds),
            !.last = NoneOpt]
    /\ UNCHANGED <<client, server, transport>>

SimulatorReceivePackets ==
    /\ subject.panic = ""
    /\ \E res \in {NetworkSimulator_receive_packets(subject.ns)} :
        subject' = [subject EXCEPT
            !.ns = res.ns, !.panic = res.panic,
            !.last = Some([op |-> "receive_packets", before |-> subject.ns,
                           rng |-> NoneOpt, packets |-> res.packets])]
    /\ UNCHANGED <<client, server, transport>>

SimulatorDiscardPackets ==
    /\ subject.panic = ""
    /\ subject' = [subject EXCEPT !.ns = NetworkSimulator_discard_packets(@),
                                  !.last = NoneOpt]
    /\ UNCHANGED <<client, server, transport>>

SimulatorDiscardClientPackets(client_index) ==
    /\ subject.panic = ""
    /\ subject' = [subject EXCEPT
            !.ns = NetworkSimulator_discard_client_packets(@, client_index),
            !.last = NoneOpt]
    /\ UNCHANGED <<client, server, transport>>

NextSimulator ==
    \/ \E property \in {"latency", "jitter"}, value \in {0, 16} :
            SimulatorSet(property, value)
    \/ \E property \in {"packet_loss", "duplicates"}, value \in {0, 100} :
            SimulatorSet(property, value)
    \/ \E client_index \in 0..1 : SimulatorSendPacket(client_index)
    \/ \E seconds \in 0..1 : SimulatorAdvanceTime(seconds)
    \/ SimulatorReceivePackets
    \/ SimulatorDiscardPackets
    \/ \E client_index \in 0..1 : SimulatorDiscardClientPackets(client_index)

SpecSimulator == InitSimulator /\ [][NextSimulator]_vars

\* C23: the simulator never holds more than max_simulator_packets entries, and a
\* packet sent while it holds that many takes the place of the oldest entry
C23_SimulatorBounded ==
    /\ Len(subject.ns.entries) <= subject.max_simulator_packets
    /\ \A last \in subject.last :
        (/\ last.op = "send_packet"
         /\ ~last.rng.lost /\ ~last.rng.duplicated
         /\ Len(last.before.entries) = subject.max_simulator_packets
         /\ last.before.entries # <<>>)
        => subject.ns.entries =
                Append(Tail(last.before.entries),
                       subject.ns.entries[Len(subject.ns.entries)])

----------------------------------------------------------------------------
(* A connection that is handed the payloads of a peer, also payloads that name
   channels the connection does not have *)

\* the messages the application sends on one channel, the payloads processed and the
\* time the connection is advanced to at most
PayloadMaxSends == 2
PayloadMaxPackets == 2
PayloadMaxTime == 1

\* the channel indices a payload names: those of the two channels, the number of
\* channels and one beyond it
PayloadChannels == 0..3

\* the entries of a payload: a channel index with one message or without messages
PayloadEntries ==
    [channel_index : PayloadChannels, has_messages : BOOLEAN]

\* the payloads: one or two entries
Payloads ==
    {<<e>> : e \in PayloadEntries} \cup {<<e, f>> : e, f \in PayloadEntries}

\* the bytes of one entry as the peer writes them for an unreliable channel: the
\* channel index, has_messages, and for one message the count less one and the message
PayloadEntryFields(entry, value) ==
    <<FieldU16(entry.channel_index), FieldU8(IF entry.has_messages THEN 1 ELSE 0)>>
    \o (IF entry.has_messages
        THEN <<FieldU8(0), FieldMessage(Message(value, SizeOfM))>>
        ELSE <<>>)

\* the bytes of a payload of the packet with sequence `sequence`
PayloadFields(payload, sequence) ==
    <<FieldU16(Len(payload))>>
    \o PayloadEntryFields(payload[1], <<"peer", sequence, 1>>)
    \o (IF Len(payload) > 1
        THEN PayloadEntryFields(payload[2], <<"peer", sequence, 2>>) ELSE <<>>)

\* `subject` is the connection (conn) with what its owner keeps beside it: the panic
\* that ended it, the number of sends on each channel, the number of payloads
\* processed, the time, and, when the last call was process_packet, the connection it
\* was called on, the payload, its sequence and the result
InitPayload ==
    /\ subject = [conn |-> Connection_new(ClientConfig, 0), panic |-> "",
                  sends |-> <<0, 0>>, packets |-> 0, time |-> 0, last |-> NoneOpt]
    /\ client = NoneOpt /\ server = NoneOpt
    /\ NoTransport

PayloadSendMessage(channel_index) ==
    /\ subject.panic = ""
    /\ subject.sends[channel_index + 1] < PayloadMaxSends
    /\ \E res \in {Connection_send_message(subject.conn, channel_index,
                        Message(<<"application", channel_index,
                                  subject.sends[channel_index + 1]>>, SizeOfM))} :
           subject' = [subject EXCEPT !.conn = res.conn, !.panic = res.panic,
                                      !.sends[channel_index + 1] = @ + 1,
                                      !.last = NoneOpt]
    /\ UNCHANGED <<client, server, transport>>

PayloadAdvanceTime ==
    /\ subject.panic = ""
    /\ subject.time < PayloadMaxTime
    /\ subject' = [subject EXCEPT
            !.conn = Connection_advance_time(@, subject.time + 1),
            !.time = @ + 1, !.last = NoneOpt]
    /\ UNCHANGED <<client, server, transport>>

PayloadProcessPacket(payload) ==
    /\ subject.panic = ""
    /\ subject.packets < PayloadMaxPackets
    /\ \E res \in {Connection_process_packet(subject.conn, subject.packets,
                        PayloadFields(payload, subject.packets))} :
           subject' = [subject EXCEPT
                !.conn = res.conn, !.panic = res.panic, !.packets = @ + 1,
                !.last = Some([before |-> subject.conn, payload |-> payload,
                               sequence |-> subject.packets, result |-> res.result])]
    /\ UNCHANGED <<client, server, transport>>

NextPayload ==
    \/ \E channel_index \in 0..1 : PayloadSendMessage(channel_index)
    \/ PayloadAdvanceTime
    \/ \E payload \in Payloads : PayloadProcessPacket(payload)

SpecPayload == InitPayload /\ [][NextPayload]_vars

\* conn after the entries of `payload` from entry i on that name one of its channels
\* and carry a message were handed, in their order, to process_packet_data of the
\* channel they name
RECURSIVE PayloadForwarded(_, _, _, _)
PayloadForwarded(conn, payload, sequence, i) ==
    IF i > Len(payload) THEN conn
    ELSE IF payload[i].channel_index >= Len(conn.channels) \/ ~payload[i].has_messages
    THEN PayloadForwarded(conn, payload, sequence, i + 1)
    ELSE PayloadForwarded(
            [conn EXCEPT !.channels[payload[i].channel_index + 1] =
                Channel_process_packet_data(@,
                    [channel_index |-> payload[i].channel_index,
                     messages |-> <<<<0, Message(<<"peer", sequence, i>>, SizeOfM)>>>>],
                    sequence).ch],
            payload, sequence, i + 1)

\* no channel of conn is in error
PayloadNoChannelError(conn) ==
    \A i \in 1..Len(conn.channels) : Channel_error_level(conn.channels[i]) = "None"

\* C27: process_packet drops every entry of the payload whose channel_index is not
\* smaller than the number of channels, without a change of a channel, a failure or a
\* crash, and hands every other entry to exactly the channel it names with the
\* sequence of the packet
C27_ChannelIndexValidated ==
    \A last \in subject.last :
        (Connection_error_level(last.before) = "None" /\ PayloadNoChannelError(last.before))
        => /\ subject.panic = ""
           /\ last.result
           /\ subject.conn = PayloadForwarded(last.before, last.payload, last.sequence, 1)

\* C28: when a channel is or becomes in error while process_packet handles a payload,
\* process_packet returns failure and the error level of the connection is Channel
\* right after the call; when the connection is in error on entry, process_packet
\* returns failure and leaves every channel
C28_ChannelErrorFailsPacket ==
    \A last \in subject.last :
        subject.panic = "" =>
            /\ (~PayloadNoChannelError(last.before) \/ ~PayloadNoChannelError(subject.conn))
                => ~last.result /\ Connection_error_level(subject.conn) = "Channel"
            /\ Connection_error_level(last.before) # "None"
                => ~last.result /\ subject.conn.channels = last.before.channels

----------------------------------------------------------------------------
(* The acks of a connection with a reliable and an unreliable channel whose packet
   sequence wraps *)

\* the messages the application sends on one channel, the packets the connection
\* generates one at a time, the rounds of 65536 packets generated while no channel has
\* anything to put in a packet, and the last channel time
AckMaxSends == 2
AckMaxPackets == 3
AckMaxRounds == 1
AckMaxTime == 1

\* the sequences whose acks are looked at
AckSequences == 0..3

\* `subject` is the Connection (conn) with what the harness keeps beside it: the panic
\* that ended it, the sends made on each channel, the packets generated one at a time,
\* the sequence of the next packet, whether every sequence has been used, the
\* sequences whose most recent packet carried messages of the reliable channel, each
\* of these sequences with each message that packet carried (carried), the
\* sequences acked since their most recent packet, and, when the last call was
\* process_acks, the connection it was called on and the ack
InitAck ==
    /\ subject = [conn |-> Connection_new(ChannelsConfig, 0), panic |-> "",
                  sends |-> <<0, 0>>, packets |-> 0, rounds |-> 0, time |-> 0,
                  next |-> 0, wrapped |-> FALSE, contributed |-> {}, carried |-> {},
                  acked |-> {}, last |-> NoneOpt]
    /\ client = NoneOpt /\ server = NoneOpt
    /\ NoTransport

AckSendMessage(channel_index) ==
    /\ subject.panic = ""
    /\ subject.sends[channel_index + 1] < AckMaxSends
    /\ \E res \in {Connection_send_message(subject.conn, channel_index,
                        Message(<<"application", channel_index,
                                  subject.sends[channel_index + 1]>>, SizeOfM))} :
           subject' = [subject EXCEPT !.conn = res.conn, !.panic = res.panic,
                                      !.sends[channel_index + 1] = @ + 1,
                                      !.last = NoneOpt]
    /\ UNCHANGED <<client, server, transport>>

AckAdvanceTime ==
    /\ subject.panic = ""
    /\ subject.time < AckMaxTime
    /\ subject' = [subject EXCEPT
            !.conn = Connection_advance_time(@, subject.time + 1),
            !.time = @ + 1, !.last = NoneOpt]
    /\ UNCHANGED <<client, server, transport>>

\* whether a generated packet carries messages of the reliable channel
AckCarriesReliable(channel_data) ==
    \E i \in 1..Len(channel_data) :
        channel_data[i].channel_index = 0 /\ channel_data[i].messages # <<>>

\* the messages of the reliable channel a generated packet carries
AckReliableMessages(channel_data) ==
    UNION {{channel_data[i].messages[j][2] : j \in 1..Len(channel_data[i].messages)} :
            i \in {k \in 1..Len(channel_data) : channel_data[k].channel_index = 0}}

\* the transport asks for the packet of the next sequence
AckGeneratePacket ==
    /\ subject.panic = ""
    /\ subject.packets < AckMaxPackets
    /\ \E res \in {Connection_generate_packet(subject.conn, subject.next,
                        DefaultMaxPacketSize, TRUE)} :
           subject' = [subject EXCEPT
                !.conn = res.conn, !.panic = res.panic, !.packets = @ + 1,
                !.next = (@ + 1) % U16,
                !.wrapped = @ \/ subject.next = U16 - 1,
                !.contributed = IF AckCarriesReliable(res.channel_data)
                                THEN @ \union {subject.next}
                                ELSE @ \ {subject.next},
                !.carried = {pair \in @ : pair[1] # subject.next}
                            \union {<<subject.next, message>> :
                                        message \in AckReliableMessages(res.channel_data)},
                !.acked = @ \ {subject.next},
                !.last = NoneOpt]
    /\ UNCHANGED <<client, server, transport>>

\* 65536 packets none of which carries a message of the reliable channel: generated
\* while no channel has anything to put in a packet or, when `busy`, each after a
\* send_message on the unreliable channel, whose message it carries.  Each of them
\* leaves the connection as it was, every sequence is used once more and the next
\* sequence is again the one it was
AckIdleRound(busy) ==
    /\ subject.panic = ""
    /\ subject.rounds < AckMaxRounds
    /\ \E sent \in {IF busy
                     THEN Connection_send_message(subject.conn, 1,
                            Message(<<"application", 1, "round">>, SizeOfM))
                     ELSE [panic |-> "", conn |-> subject.conn]} :
       \E res \in {Connection_generate_packet(sent.conn, subject.next,
                        DefaultMaxPacketSize, TRUE)} :
            /\ sent.panic = "" /\ res.panic = ""
            /\ res.conn = subject.conn
            /\ ~AckCarriesReliable(res.channel_data)
            /\ busy <=> res.channel_data # <<>>
    /\ subject' = [subject EXCEPT !.rounds = @ + 1, !.wrapped = TRUE,
                                  !.contributed = {}, !.carried = {},
                                  !.acked = {},
                                  !.last = NoneOpt]
    /\ UNCHANGED <<client, server, transport>>

\* the transport reports the ack of a packet that was sent and not acked since
AckProcessAcks(ack) ==
    /\ subject.panic = ""
    /\ subject.wrapped \/ ack < subject.next
    /\ ack \notin subject.acked
    /\ \E res \in {Connection_process_acks(subject.conn, <<ack>>)} :
           subject' = [subject EXCEPT
                !.conn = res.conn, !.panic = res.panic,
                !.acked = @ \union {ack},
                !.last = Some([before |-> subject.conn, ack |-> ack,
                               contributed |-> ack \in subject.contributed,
                               carried |-> {pair[2] : pair \in
                                              {q \in subject.carried : q[1] = ack}}])]
    /\ UNCHANGED <<client, server, transport>>

NextAck ==
    \/ \E channel_index \in 0..1 : AckSendMessage(channel_index)
    \/ AckAdvanceTime
    \/ AckGeneratePacket
    \/ \E busy \in BOOLEAN : AckIdleRound(busy)
    \/ \E ack \in AckSequences : AckProcessAcks(ack)

SpecAck == InitAck /\ [][NextAck]_vars

\* the state of the reliable channel that process_ack works on
AckChannelState(conn) ==
    [message_send_queue |-> conn.channels[1].processor.message_send_queue,
     oldest_unacked_message_id |-> conn.channels[1].processor.oldest_unacked_message_id,
     sent_packets |-> conn.channels[1].processor.sent_packets,
     sent_packet_message_ids |-> conn.channels[1].processor.sent_packet_message_ids]

\* C29: process_ack(seq) of the reliable channel leaves the send queue,
\* oldest_unacked_message_id and sent_packets as they were, and does not panic, when
\* the channel put no message in the packet most recently sent with sequence seq or
\* sent_packets no longer holds an entry for seq, also with a second channel and
\* after the packet sequence has wrapped
C29_AckFrame ==
    \A l \in subject.last :
        (~l.contributed
            \/ ~SequenceBuffer_exists(l.before.channels[1].processor.sent_packets, l.ack))
        => /\ subject.panic = ""
           /\ AckChannelState(subject.conn) = AckChannelState(l.before)

----------------------------------------------------------------------------
(* The packets of a reliable channel whose messages are resent until they are acked *)

\* the messages the application sends, the packets generated, the last channel time,
\* and message_resend_time, in the time unit of MessageResendTime
PacingMaxSends == 2
PacingMaxPackets == 3
PacingMaxTime == 2
PacingResendTime == 2

\* the sequence of the first packet
PacingStarts == {0, U16 - 1}

PacingConfig ==
    ConnectionConfig(DefaultMaxPacketSize,
        <<[ChannelConfig_new(ReliableOrdered) EXCEPT
                !.message_resend_time = PacingResendTime]>>)

\* `subject` is the Connection (conn) with what the harness keeps beside it: the panic
\* that ended it, the sends made, the channel time, the sequence of the first and the
\* number of packets generated, for each of them the channel time, the messages it
\* carried and whether each was in the send queue when it was generated (carried),
\* the packets acked, and each message an ack took from the send queue with the number
\* of packets generated before (removed)
InitPacing ==
    /\ \E first \in PacingStarts :
        subject = [conn |-> Connection_new(PacingConfig, 0), panic |-> "",
                   sends |-> 0, time |-> 0, first |-> first,
                   carried |-> <<>>, acked |-> {}, removed |-> {}]
    /\ client = NoneOpt /\ server = NoneOpt
    /\ NoTransport

\* the messages the send queue of the reliable channel holds
PacingQueued(conn) ==
    {Unwrap(e).message :
        e \in {conn.channels[1].processor.message_send_queue.entries[k] :
                 k \in DOMAIN conn.channels[1].processor.message_send_queue.entries}
              \ {NoneOpt}}

PacingSendMessage ==
    /\ subject.panic = ""
    /\ subject.sends < PacingMaxSends
    /\ Channel_can_send_message(subject.conn.channels[1])
    /\ \E res \in {Connection_send_message(subject.conn, 0,
                        Message(<<"application", 0, subject.sends>>, SizeOfM))} :
           subject' = [subject EXCEPT !.conn = res.conn, !.panic = res.panic,
                                      !.sends = @ + 1]
    /\ UNCHANGED <<client, server, transport>>

PacingAdvanceTime ==
    /\ subject.panic = ""
    /\ subject.time < PacingMaxTime
    /\ subject' = [subject EXCEPT
            !.conn = Connection_advance_time(@, subject.time + 1),
            !.time = @ + 1]
    /\ UNCHANGED <<client, server, transport>>

PacingGeneratePacket ==
    /\ subject.panic = ""
    /\ Len(subject.carried) < PacingMaxPackets
    /\ \E res \in {Connection_generate_packet(subject.conn,
                        (subject.first + Len(subject.carried)) % U16,
                        DefaultMaxPacketSize, TRUE)} :
           subject' = [subject EXCEPT
                !.conn = res.conn, !.panic = res.panic,
                !.carried = Append(@,
                    [time |-> subject.conn.channels[1].processor.time,
                     messages |-> UNION {{d.messages[j][2] : j \in 1..Len(d.messages)} :
                                    d \in {res.channel_data[i] :
                                             i \in 1..Len(res.channel_data)}},
                     queued |-> PacingQueued(subject.conn)])]
    /\ UNCHANGED <<client, server, transport>>

\* the transport reports the ack of the n-th packet, once
PacingProcessAcks(n) ==
    /\ subject.panic = ""
    /\ n \in 1..Len(subject.carried)
    /\ n \notin subject.acked
    /\ \E res \in {Connection_process_acks(subject.conn,
                        <<(subject.first + n - 1) % U16>>)} :
           subject' = [subject EXCEPT
                !.conn = res.conn, !.panic = res.panic,
                !.acked = @ \union {n},
                !.removed = @ \union
                    {<<message, Len(subject.carried)>> :
                        message \in PacingQueued(subject.conn) \ PacingQueued(res.conn)}]
    /\ UNCHANGED <<client, server, transport>>

NextPacing ==
    \/ PacingSendMessage
    \/ PacingAdvanceTime
    \/ PacingGeneratePacket
    \/ \E n \in 1..PacingMaxPackets : PacingProcessAcks(n)

SpecPacing == InitPacing /\ [][NextPacing]_vars

----------------------------------------------------------------------------
(* The number and the ids of the messages a generated packet carries for a channel *)

\* the messages the application sends on one channel, the packets generated and the
\* last channel time
CountMaxSends == 3
CountMaxPackets == 2
CountMaxTime == 1

\* the messages sent, delivered and acked on the reliable channel before
CountBases == {0, WrapBase + 1}

\* a reliable and an unreliable channel that put at most `most` messages in a packet;
\* the send queue of the unreliable one holds every message the application sends
CountConfig(most) ==
    ConnectionConfig(DefaultMaxPacketSize,
        [i \in 1..2 |-> [ChannelsConfig.channels[i] EXCEPT
                            !.max_messages_per_packet = most,
                            !.message_send_queue_size =
                                IF i = 2 THEN CountMaxSends * SizeOfM ELSE @]])

\* `subject` is the Connection (conn) with what the harness keeps beside it: the panic
\* that ended it, the sends made on each channel, the channel time, the sequence of
\* the first packet, the number of packets generated, the packets acked, and, when the
\* last call was generate_packet, the connection it was called on and the
\* ChannelPacketData of the channels
InitCount ==
    /\ \E most \in 1..MaxMessagesPerPacket : \E base \in CountBases :
        subject = [conn |-> Connection_after_history(CountConfig(most), 0, base, 0),
                   panic |-> "", sends |-> <<0, 0>>, time |-> 0,
                   first |-> base % U16, packets |-> 0, acked |-> {},
                   last |-> NoneOpt]
    /\ client = NoneOpt /\ server = NoneOpt
    /\ NoTransport

CountSendMessage(channel_index) ==
    /\ subject.panic = ""
    /\ subject.sends[channel_index + 1] < CountMaxSends
    /\ Channel_can_send_message(subject.conn.channels[channel_index + 1])
    /\ \E res \in {Connection_send_message(subject.conn, channel_index,
                        Message(<<"application", channel_index,
                                  subject.sends[channel_index + 1]>>, SizeOfM))} :
           subject' = [subject EXCEPT !.conn = res.conn, !.panic = res.panic,
                                      !.sends[channel_index + 1] = @ + 1,
                                      !.last = NoneOpt]
    /\ UNCHANGED <<client, server, transport>>

CountAdvanceTime ==
    /\ subject.panic = ""
    /\ subject.time < CountMaxTime
    /\ subject' = [subject EXCEPT
            !.conn = Connection_advance_time(@, subject.time + 1),
            !.time = @ + 1, !.last = NoneOpt]
    /\ UNCHANGED <<client, server, transport>>

CountGeneratePacket ==
    /\ subject.panic = ""
    /\ subject.packets < CountMaxPackets
    /\ \E res \in {Connection_generate_packet(subject.conn,
                        (subject.first + subject.packets) % U16,
                        DefaultMaxPacketSize, TRUE)} :
           subject' = [subject EXCEPT
                !.conn = res.conn, !.panic = res.panic, !.packets = @ + 1,
                !.last = Some([before |-> subject.conn,
                               channel_data |-> res.channel_data])]
    /\ UNCHANGED <<client, server, transport>>

\* the transport reports the ack of the n-th packet, once
CountProcessAcks(n) ==
    /\ subject.panic = ""
    /\ n \in 1..subject.packets
    /\ n \notin subject.acked
    /\ \E res \in {Connection_process_acks(subject.conn,
                        <<(subject.first + n - 1) % U16>>)} :
           subject' = [subject EXCEPT
                !.conn = res.conn, !.panic = res.panic,
                !.acked = @ \union {n}, !.last = NoneOpt]
    /\ UNCHANGED <<client, server, transport>>

NextCount ==
    \/ \E channel_index \in 0..1 : CountSendMessage(channel_index)
    \/ CountAdvanceTime
    \/ CountGeneratePacket
    \/ \E n \in 1..CountMaxPackets : CountProcessAcks(n)

SpecCount == InitCount /\ [][NextCount]_vars

\* whether id lies in [oldest_unacked_message_id, send_message_id) of r
CountInSendWindow(r, id) ==
    WrappingSub(id, r.oldest_unacked_message_id)
        < WrappingSub(r.send_message_id, r.oldest_unacked_message_id)

C32_ConnectionOwned ==
    client.panic = "" =>
        (client.cl.connection # NoneOpt
            <=> client.cl.client_state \in {"Connecting", "Connected"})

----------------------------------------------------------------------------
(* A server whose packets wait in a network simulator: clients connect, time out and
   are disconnected, the application sends to the slots, packets are sent and time is
   advanced *)

\* the slots of the server, the time it is advanced to at most, the messages the
\* application sends to all slots together at most, the calls of send_packets,
\* max_simulator_packets, and the latency of the simulator in milliseconds
RelayMaxClients == 2
RelayMaxTime == 2
RelayMaxSends == 2
RelayMaxRounds == 1
RelayMaxSimulatorPackets == 4
RelayLatency == 1500

RelaySlots == 0..(RelayMaxClients - 1)

\* `server` is the Server (sv) with what the harness keeps beside it: the panic that
\* ended it, the time it was last advanced to, the number of sends on every channel of
\* every slot, the calls of send_packets, the next packet sequence of the reliable
\* endpoint of every slot, and, when the last call was advance_time or
\* disconnect_client, the server it was called on with the arguments of the call
InitRelay ==
    /\ server = [sv |-> Server_set_latency(
                            Server_start_simulated(ChannelsConfig, RelayMaxClients, 0,
                                                   RelayMaxSimulatorPackets),
                            RelayLatency),
                 panic |-> "", now |-> 0,
                 sends |-> [i \in 1..RelayMaxClients |-> <<0, 0>>],
                 rounds |-> 0,
                 sequences |-> [i \in 1..RelayMaxClients |-> 0],
                 last |-> NoneOpt]
    /\ client = NoneOpt /\ subject = NoneOpt
    /\ NoTransport

\* reliable_endpoint_reset on the slots that were disconnected
RelaySequences(before, after, sequences) ==
    [i \in 1..RelayMaxClients |->
        IF before.client_connected[i] /\ ~after.client_connected[i] THEN 0
        ELSE sequences[i]]

\* the number of messages passed to send_message for the first n slots
RECURSIVE RelaySent(_, _)
RelaySent(sends, n) ==
    IF n = 0 THEN 0 ELSE RelaySent(sends, n - 1) + sends[n][1] + sends[n][2]

RelaySendMessage(client_index, channel_index) ==
    /\ server.panic = ""
    /\ RelaySent(server.sends, RelayMaxClients) < RelayMaxSends
    /\ Connection_can_send_message(server.sv.client_connection[client_index + 1],
                                   channel_index)
    /\ \E res \in {Server_send_message(server.sv, client_index, channel_index,
                        Message(<<"server", client_index, channel_index,
                                  server.sends[client_index + 1][channel_index + 1]>>,
                                SizeOfM))} :
           server' = [server EXCEPT !.sv = res.sv, !.panic = res.panic,
                                    !.sends[client_index + 1][channel_index + 1] = @ + 1,
                                    !.last = NoneOpt]
    /\ UNCHANGED <<client, subject, transport>>

RelaySendPackets ==
    /\ server.panic = ""
    /\ server.rounds < RelayMaxRounds
    /\ \E rngs \in [1..RelayMaxClients ->
                        NetworkSimulator_rng(Unwrap(server.sv.network_simulator))] :
       \E res \in {Server_send_packets(server.sv, server.sequences, rngs,
                                       RelayMaxSimulatorPackets)} :
           server' = [server EXCEPT
                !.sv = res.sv, !.panic = res.panic, !.rounds = @ + 1,
                !.sequences = [i \in 1..RelayMaxClients |->
                                IF res.sv.network_simulator # server.sv.network_simulator
                                   /\ server.sv.client_connected[i]
                                   /\ res.sv.client_connection[i] # server.sv.client_connection[i]
                                THEN (@[i] + 1) % U16 ELSE @[i]],
                !.last = NoneOpt]
    /\ UNCHANGED <<client, subject, transport>>

\* no packet was acked, so the reliable endpoints have no acks
RelayNoAcks == [i \in 1..RelayMaxClients |-> <<>>]

RelayAdvanceTime(events) ==
    /\ server.panic = ""
    /\ server.now < RelayMaxTime
    /\ \E res \in {Server_advance_time(server.sv, server.now + 1, RelayNoAcks, events)} :
           server' = [server EXCEPT
                !.sv = res.sv, !.panic = res.panic, !.now = @ + 1,
                !.sequences = RelaySequences(server.sv, res.sv, @),
                !.last = Some([op |-> "advance_time", before |-> server.sv,
                               new_time |-> server.now + 1, events |-> events,
                               client_index |-> 0])]
    /\ UNCHANGED <<client, subject, transport>>

\* Server::disconnect_client
RelayDisconnectClient(client_index) ==
    /\ server.panic = ""
    /\ \E sv \in {IF Server_is_client_connected(server.sv, client_index)
                  THEN disconnect_client(server.sv, client_index) ELSE server.sv} :
           server' = [server EXCEPT
                !.sv = sv,
                !.sequences = RelaySequences(server.sv, sv, @),
                !.last = Some([op |-> "disconnect_client", before |-> server.sv,
                               new_time |-> server.now, events |-> {},
                               client_index |-> client_index])]
    /\ UNCHANGED <<client, subject, transport>>

NextRelay ==
    \/ \E client_index \in RelaySlots, channel_index \in 0..1 :
            RelaySendMessage(client_index, channel_index)
    \/ RelaySendPackets
    \/ \E events \in SUBSET RelaySlots : RelayAdvanceTime(events)
    \/ \E client_index \in RelaySlots : RelayDisconnectClient(client_index)

SpecRelay == InitRelay /\ [][NextRelay]_vars

\* no key is held by the buffer and its cursor is 0; what reset leaves in the slots
\* cannot be read, since every read compares the key the slot records
RelayEmpty(sb) ==
    /\ sb.sequence = 0
    /\ \A i \in DOMAIN sb.entry_sequence : sb.entry_sequence[i] = NoneOpt

\* conn is in the state Connection::new leaves it in: no error level, empty send and
\* receive queues and sent-packet records, message ids at 0
RelayInitial(conn) ==
    /\ Connection_error_level(conn) = "None"
    /\ \A i \in 1..Len(conn.channels) :
        LET channel == conn.channels[i]
        IN  /\ Channel_error_level(channel) = "None"
            /\ IF channel.config.kind = UnreliableUnordered
               THEN /\ channel.processor.message_send_queue = <<>>
                    /\ channel.processor.message_receive_queue = <<>>
               ELSE /\ channel.processor.send_message_id = 0
                    /\ channel.processor.receive_message_id = 0
                    /\ channel.processor.oldest_unacked_message_id = 0
                    /\ RelayEmpty(channel.processor.sent_packets)
                    /\ RelayEmpty(channel.processor.message_send_queue)
                    /\ RelayEmpty(channel.processor.message_receive_queue)

\* the pending packets of the simulator of sv that go to slot k: destination, data and
\* delivery time
RelayPending(sv, k) ==
    LET ns == Unwrap(sv.network_simulator)
        to_k == SelectSeq(ns.entries, LAMBDA entry : entry.destination_client_index = k)
    IN  [i \in 1..Len(to_k) |-> <<to_k[i].packet_data, to_k[i].delievery_time>>]

\* the slots the transport reported disconnected during the last call
RelayDisconnected(l) ==
    IF l.op = "disconnect_client"
    THEN {k \in {l.client_index} : Server_is_client_connected(l.before, k)}
    ELSE {k \in l.events : Server_is_client_connected(l.before, k)}

----------------------------------------------------------------------------
(* One reliable-ordered channel whose receiving application calls receive_message
   until it returns nothing after every processed packet, any loss, duplication, delay
   and reordering *)

\* [panic, conn, messages]: receive_message on channel ch until it returns None
RECURSIVE DrainChannel(_, _, _)
DrainChannel(conn, ch, messages) ==
    The({IF res.panic # "" THEN [panic |-> res.panic, conn |-> conn, messages |-> messages]
         ELSE IF res.message = NoneOpt
         THEN [panic |-> "", conn |-> res.conn, messages |-> messages]
         ELSE DrainChannel(res.conn, ch, Append(messages, Unwrap(res.message)))
         : res \in {Connection_receive_message(conn, ch)}})

\* the application of c passes its next message to send_message when can_send_message
\* allows it
DrainSendMessage(c, ch, bytes) ==
    /\ Connection_can_send_message(connection[c], ch)
    /\ SendMessage(c, ch, bytes)

\* the transport hands c a datagram of the peer and acks it to the peer when
\* process_packet accepts it; the application of c then drains channel 0
DrainProcessPacket(c, p) ==
    /\ panicked[c] = ""
    /\ p \in network[Peer(c)]
    /\ Deliveries(c, p.sequence) < MaxDeliveries
    /\ \E res \in {Connection_process_packet(connection[c], p.sequence, p.fields)} :
       \E drained \in {DrainChannel(res.conn, 0, <<>>)} :
           /\ processed' = [processed EXCEPT ![c] =
                    @ \cup {<<p.sequence, Deliveries(c, p.sequence) + 1>>}]
           /\ IF res.panic # ""
              THEN Panic(c, res.panic) /\ UNCHANGED <<connection, acked, received_log>>
              ELSE /\ acked' = IF res.result
                               THEN [acked EXCEPT ![Peer(c)] = @ \cup {p.sequence}]
                               ELSE acked
                   /\ received_log' = [received_log EXCEPT ![c][1] = @ \o drained.messages]
                   /\ IF drained.panic # ""
                      THEN Panic(c, drained.panic)
                           /\ connection' = [connection EXCEPT ![c] = res.conn]
                      ELSE /\ connection' = [connection EXCEPT ![c] = drained.conn]
                           /\ UNCHANGED panicked
    /\ UNCHANGED components
    /\ UNCHANGED <<overflow_checks, clock, packet_sequence, network, sent_log, setup>>

NextDrain ==
    \/ \E c \in Endpoints : \E bytes \in setup.sizes : DrainSendMessage(c, 0, bytes)
    \/ \E c \in Endpoints : GeneratePacket(c)
    \/ \E c \in Endpoints : \E p \in network[Peer(c)] : DrainProcessPacket(c, p)
    \/ \E c \in Endpoints : \E ack \in acked[c] : ProcessAcks(c, ack)
    \/ \E c \in Endpoints : AdvanceTime(c)

SpecDrain == Init /\ [][NextDrain]_vars

----------------------------------------------------------------------------
(* The send window of a reliable channel whose packets are acked in any order *)

\* the messages the application sends, the packets generated and the last channel time
UnackedMaxSends == 4
UnackedMaxPackets == 3
UnackedMaxTime == 1

\* message_send_queue_size: one that divides 65536 and one that does not
UnackedSizes == {SendQueueSize, SendQueueSize + 1}

\* the messages sent, delivered and acked before
UnackedBases == {0, WrapBase}

UnackedConfig(size) ==
    ConnectionConfig(DefaultMaxPacketSize,
        <<[ChannelConfig_new(ReliableOrdered) EXCEPT !.message_send_queue_size = size]>>)

\* `subject` is the Connection (conn) with what the harness keeps beside it: the panic
\* that ended it, the sends made, the channel time, the sequence of the first packet,
\* the packets generated, the packets acked, and the last call
InitUnacked ==
    /\ \E size \in UnackedSizes : \E base \in UnackedBases :
        subject = [conn |-> Connection_after_history(UnackedConfig(size), 0, base, 0),
                   panic |-> "", sends |-> 0, time |-> 0, first |-> base % U16,
                   packets |-> 0, acked |-> {}, last |-> "new"]
    /\ client = NoneOpt /\ server = NoneOpt
    /\ NoTransport

UnackedSendMessage ==
    /\ subject.panic = ""
    /\ subject.sends < UnackedMaxSends
    /\ Connection_can_send_message(subject.conn, 0)
    /\ \E res \in {Connection_send_message(subject.conn, 0,
                        Message(<<"application", 0, subject.sends>>, SizeOfM))} :
           subject' = [subject EXCEPT !.conn = res.conn, !.panic = res.panic,
                                      !.sends = @ + 1, !.last = "send_message"]
    /\ UNCHANGED <<client, server, transport>>

UnackedAdvanceTime ==
    /\ subject.panic = ""
    /\ subject.time < UnackedMaxTime
    /\ subject' = [subject EXCEPT
            !.conn = Connection_advance_time(@, subject.time + 1),
            !.time = @ + 1, !.last = "advance_time"]
    /\ UNCHANGED <<client, server, transport>>

UnackedGeneratePacket ==
    /\ subject.panic = ""
    /\ subject.packets < UnackedMaxPackets
    /\ \E res \in {Connection_generate_packet(subject.conn,
                        (subject.first + subject.packets) % U16,
                        DefaultMaxPacketSize, TRUE)} :
           subject' = [subject EXCEPT
                !.conn = res.conn, !.panic = res.panic, !.packets = @ + 1,
                !.last = "generate_packet"]
    /\ UNCHANGED <<client, server, transport>>

\* the transport reports the ack of the n-th packet, once
UnackedProcessAcks(n) ==
    /\ subject.panic = ""
    /\ n \in 1..subject.packets
    /\ n \notin subject.acked
    /\ \E res \in {Connection_process_acks(subject.conn,
                        <<(subject.first + n - 1) % U16>>)} :
           subject' = [subject EXCEPT
                !.conn = res.conn, !.panic = res.panic,
                !.acked = @ \union {n}, !.last = "process_acks"]
    /\ UNCHANGED <<client, server, transport>>

NextUnacked ==
    \/ UnackedSendMessage
    \/ UnackedAdvanceTime
    \/ UnackedGeneratePacket
    \/ \E n \in 1..UnackedMaxPackets : UnackedProcessAcks(n)

SpecUnacked == InitUnacked /\ [][NextUnacked]_vars

\* the ids the send queue of r holds
UnackedQueued(r) ==
    {id \in {Unwrap(r.message_send_queue.entry_sequence[i]) :
                i \in {j \in DOMAIN r.message_send_queue.entry_sequence :
                        r.message_send_queue.entry_sequence[j] # NoneOpt}} : TRUE}

\* C35: in every state of a reliable channel oldest_unacked_message_id is not greater
\* (wrap-aware) than send_message_id, send_message_id - oldest_unacked_message_id is at
\* most message_send_queue_size, the cursor of the send queue is send_message_id, every
\* queued id lies in [oldest_unacked_message_id, send_message_id), and
\* oldest_unacked_message_id is send_message_id or the id of a queued message
C35_SendWindow ==
    subject.panic = "" =>
        LET r == subject.conn.channels[1].processor
            window == WrappingSub(r.send_message_id, r.oldest_unacked_message_id)
        IN  /\ ~sequence_greater_than(r.oldest_unacked_message_id, r.send_message_id)
            /\ window <= r.config.message_send_queue_size
            /\ SequenceBuffer_sequence_pointer(r.message_send_queue) = r.send_message_id
            /\ \A id \in UnackedQueued(r) :
                    WrappingSub(id, r.oldest_unacked_message_id) < window
            /\ \/ r.oldest_unacked_message_id = r.send_message_id
               \/ SequenceBuffer_exists(r.message_send_queue, r.oldest_unacked_message_id)

\* the messages the send queue of the reliable channel of conn holds
AckQueued(conn) ==
    LET queue == conn.channels[1].processor.message_send_queue
    IN  {Unwrap(SequenceBuffer_get(queue, Unwrap(queue.entry_sequence[i]))).message :
            i \in {j \in DOMAIN queue.entry_sequence : queue.entry_sequence[j] # NoneOpt}}

\* C36: process_acks takes a message from the send queue of the reliable channel only
\* when the acked packet, the one most recently sent with that sequence, carried that
\* message, also for late acks and after the packet sequence has wrapped
C36_AckedOnlyIfCarried ==
    \A l \in subject.last :
        subject.panic = "" =>
            (AckQueued(l.before) \ AckQueued(subject.conn)) \subseteq l.carried

\* C37: when the transport reports every packet it sent as acked at most once, the
\* assertions of process_ack of the reliable channel hold: the sent-packet entry it
\* finds is not marked acked and every message it takes has the id recorded for it,
\* also when the channel puts messages in some packets only while the packet sequence
\* of the connection advances and wraps
C37_AckAssertions ==
    \A panic \in {subject.panic} :
        /\ panic # "process_ack: assert !entry.acked"
        /\ panic # "process_ack: assert_eq message_id"

\* C38: the subtractions of the bit budget never go below zero: neither
\* available_bits - used_bits in get_messages_to_send of a reliable channel nor
\* available_bits - 32 - packet_data_bits in generate_packet, whatever the kinds of the
\* channels, their packet budgets and the sizes of the queued messages (a build that
\* checks overflow panics where the subtraction goes below zero)
C38_NoUnderflow ==
    \A c \in Endpoints :
        /\ panicked[c] # "get_messages_to_send: attempt to subtract with overflow"
        /\ panicked[c] # "generate_packet: attempt to subtract with overflow"

\* C39: has_messages_to_send of a channel is true exactly when the channel holds a
\* message that still has to be transmitted: for the unreliable channel when its send
\* queue is not empty, for the reliable channel when oldest_unacked_message_id differs
\* from send_message_id, which is when its send queue holds a message; so it is false
\* on a fresh channel and true after an accepted send_message
C39_HasMessagesToSend ==
    subject.panic = "" =>
        \A i \in 1..Len(subject.conn.channels) :
            LET ch == subject.conn.channels[i] IN
                Connection_has_messages_to_send(subject.conn, i - 1)
                    <=> IF ch.config.kind = UnreliableUnordered
                        THEN ch.processor.message_send_queue # <<>>
                        ELSE /\ ch.processor.oldest_unacked_message_id
                                    # ch.processor.send_message_id
                             /\ UnackedQueued(ch.processor) # {}

\* C40: whenever a client becomes connected on slot k of the server, the Connection of
\* slot k is in its initial state (error level None, empty send and receive queues,
\* message ids at 0), whatever happened before: Server::send_message to slot k while no
\* client was connected on it, and earlier sessions on the slot
C40_ConnectInitial ==
    [][\A k \in 1..RelayMaxClients :
            (/\ server'.panic = ""
             /\ ~server.sv.client_connected[k]
             /\ server'.sv.client_connected[k])
                => RelayInitial(server'.sv.client_connection[k])]_vars

====
